---- MODULE Spec2Model ----
(***************************************************************************)
(* GraphSettings admin: the error normalizer (api/error.ts), the scoped    *)
(* API adapter (api/scopedApiAdapter.ts), the data provider                *)
(* (dataProvider.ts: record mapper, list and record operations), the API   *)
(* token and the client middleware (config/env.ts, api/client.ts) and the  *)
(* operations panels (resources/ResourceOperations.tsx), modelled as state *)
(* machines over JavaScript values.                                        *)
(***************************************************************************)
EXTENDS Integers, Sequences, FiniteSets, TLC

VARIABLES
  nzError,      \* normalizeApiError: the `error` argument
  nzStatus,     \* normalizeApiError: the `status` argument, <<>> when omitted
  nzResult,     \* normalizeApiError: what the call returned (or threw)
  adCall,       \* scopedApiAdapter: the method invoked and its arguments
  adPc,         \* scopedApiAdapter: "idle", "inflight" (awaiting the request), "settled"
  httpLog,      \* the requests handed to apiClient, in order
  adResponse,   \* how the request promise settled: an ApiResult or a rejection
  adOutcome,    \* how the promise returned by the adapter method settled
  mpResource,   \* record mapper: the resource argument
  mpInput,      \* record mapper: the summary or record argument
  mpFn,         \* record mapper: the function applied
  mpResult,     \* record mapper: the record returned or the error thrown
  mpAgain,      \* record mapper: what mapping the returned record once more gave
  lsResource,   \* list operations: the resource argument
  lsListed,     \* list operations: how adapter.list settles
  lsParams,     \* list operations: filter, sort and pagination of the call
  lsOp,         \* list operations: "getList" or "getManyReference"
  lsRef,        \* list operations: target and id of a getManyReference call
  lsSorted,     \* list operations: the local `sorted` of paginateAndSort
  lsResult,     \* list operations: how the returned promise settled
  dpAdapter,    \* data provider: the methods of the adapter it was created with
  dpResource,   \* data provider: the resource argument
  dpParams,     \* data provider: data, id and ids of the call
  dpOp,         \* data provider: the operation called
  dpPc,         \* data provider: "idle", "awaiting" the adapter, "done" (promise settled)
  dpCalls,      \* the calls made to the adapter's methods, in order
  dpSettled,    \* how each of those adapter calls settled, Pending while in flight
  dpOrder,      \* the indices of the adapter calls in the order they settled
  dpResult,     \* data provider: how the returned promise settled
  clEnvToken,   \* config/env.ts: import.meta.env.VITE_API_TOKEN
  clWindow,     \* config/env.ts: whether `window` is defined
  clStorage,    \* localStorage item "graphsettings_api_token", Null when there is none
  clLastSet,    \* the argument of the most recent setApiToken call, NoValue before it
  clSent,       \* api/client.ts: the requests sent, with the token read for each
  ccSlots,      \* two operations side by side: what each call holds in its locals
  ccLog,        \* two operations side by side: the calls and settlements in order
  pnPanel,      \* operations panel: which panel is shown, "" when none
  pnRecordId,   \* operations panel: record[idField] of the record context
  pnBusy,       \* operations panel: the `busy` state
  pnResult,     \* operations panel: the `result` state
  pnClicks      \* operations panel: the handler runs, each with its form values and effects

normVars == <<nzError, nzStatus, nzResult>>
adapterVars == <<adCall, adPc, httpLog, adResponse, adOutcome>>
mapperVars == <<mpResource, mpInput, mpFn, mpResult, mpAgain>>
listVars == <<lsResource, lsListed, lsParams, lsOp, lsRef, lsSorted, lsResult>>
providerVars == <<dpAdapter, dpResource, dpParams, dpOp, dpPc, dpCalls, dpSettled, dpOrder,
                  dpResult>>
clientVars == <<clEnvToken, clWindow, clStorage, clLastSet, clSent>>
concurrentVars == <<ccSlots, ccLog>>
panelVars == <<pnPanel, pnRecordId, pnBusy, pnResult, pnClicks>>
vars == <<nzError, nzStatus, nzResult, adCall, adPc, httpLog, adResponse, adOutcome,
          mpResource, mpInput, mpFn, mpResult, mpAgain,
          lsResource, lsListed, lsParams, lsOp, lsRef, lsSorted, lsResult,
          dpAdapter, dpResource, dpParams, dpOp, dpPc, dpCalls, dpSettled, dpOrder, dpResult,
          clEnvToken, clWindow, clStorage, clLastSet, clSent, ccSlots, ccLog,
          pnPanel, pnRecordId, pnBusy, pnResult, pnClicks>>

(***************************************************************************)
(* Bounds of the model.                                                    *)
(***************************************************************************)
MaxLoc == 2        \* segments in one validation issue's loc
MaxIssues == 2     \* issues in one validation payload's detail

(***************************************************************************)
(* JavaScript values.  Every value is a record tagged by t.                *)
(***************************************************************************)
Undef == [t |-> "undefined"]
Null == [t |-> "null"]
Str(s) == [t |-> "string", s |-> s]
Num(n) == [t |-> "number", num |-> n, den |-> 1]
Frac(n, d) == [t |-> "number", num |-> n, den |-> d]   \* n/d in lowest terms, d > 1
NaN == [t |-> "number", num |-> 0, den |-> 0]
Bool(b) == [t |-> "boolean", b |-> b]
Obj(f) == [t |-> "object", f |-> f]                    \* plain object, f: key -> value
Arr(a) == [t |-> "array", a |-> a]
Err(message, f) == [t |-> "Error", message |-> message, f |-> f]
HttpErr(message, status, body) ==
  [t |-> "HttpError", message |-> message, status |-> status, body |-> body]

EmptyObj == [k \in {} |-> Undef]

\* A thrown TypeError (property access on null/undefined, call of a non-function).
Thrown == [t |-> "TypeError"]
\* The call has not returned yet.
Pending == [t |-> "pending"]

\* No call, response or outcome yet.
NoValue == [t |-> "none"]

\* The parts of the state a specification does not use stay as they start.
NormIdle == nzError = Undef /\ nzStatus = <<>> /\ nzResult = Pending

AdapterIdle ==
  /\ adCall = NoValue
  /\ adPc = "idle"
  /\ httpLog = <<>>
  /\ adResponse = NoValue
  /\ adOutcome = NoValue

MapperIdle ==
  /\ mpResource = ""
  /\ mpInput = Undef
  /\ mpFn = ""
  /\ mpResult = Pending
  /\ mpAgain = Pending

ListIdle ==
  /\ lsResource = ""
  /\ lsListed = NoValue
  /\ lsParams = NoValue
  /\ lsOp = ""
  /\ lsRef = NoValue
  /\ lsSorted = NoValue
  /\ lsResult = Pending

ProviderIdle ==
  /\ dpAdapter = {}
  /\ dpResource = ""
  /\ dpParams = NoValue
  /\ dpOp = ""
  /\ dpPc = "idle"
  /\ dpCalls = <<>>
  /\ dpSettled = <<>>
  /\ dpOrder = <<>>
  /\ dpResult = Pending

ClientIdle ==
  /\ clEnvToken = Undef
  /\ clWindow = TRUE
  /\ clStorage = Null
  /\ clLastSet = NoValue
  /\ clSent = <<>>

ConcurrentIdle ==
  /\ ccSlots = <<>>
  /\ ccLog = <<>>

PanelIdle ==
  /\ pnPanel = ""
  /\ pnRecordId = Undef
  /\ pnBusy = FALSE
  /\ pnResult = Null
  /\ pnClicks = <<>>

typeof(value) ==
  CASE value.t = "undefined" -> "undefined"
    [] value.t = "string" -> "string"
    [] value.t = "number" -> "number"
    [] value.t = "boolean" -> "boolean"
    [] OTHER -> "object"           \* null, objects, arrays, Error instances

IsNullish(value) == value.t \in {"null", "undefined"}
IsArray(value) == value.t = "array"

\* value[key]: undefined for a missing key, a TypeError on null and undefined.
Prop(value, key) ==
  CASE IsNullish(value) -> Thrown
    [] value.t = "object" -> IF key \in DOMAIN value.f THEN value.f[key] ELSE Undef
    [] value.t \in {"Error", "HttpError"} ->
         IF key = "message" THEN Str(value.message)
         ELSE IF value.t = "Error" /\ key \in DOMAIN value.f THEN value.f[key]
         ELSE Undef
    [] OTHER -> Undef

\* JavaScript truthiness.
Truthy(value) ==
  CASE IsNullish(value) -> FALSE
    [] value.t = "string" -> value.s # ""
    [] value.t = "number" -> value.den # 0 /\ value.num # 0
    [] value.t = "boolean" -> value.b
    [] OTHER -> TRUE

Digits == <<"0", "1", "2", "3", "4", "5", "6", "7", "8", "9">>

RECURSIVE NatToString(_)
NatToString(n) ==
  IF n < 10 THEN Digits[n + 1] ELSE NatToString(n \div 10) \o Digits[(n % 10) + 1]

\* String(value) for the values a loc segment can be.
StringOf(value) ==
  CASE value.t = "string" -> value.s
    [] value.t = "number" /\ value.den = 1 /\ value.num >= 0 -> NatToString(value.num)
    [] value.t = "number" /\ value.den = 1 /\ value.num < 0 -> "-" \o NatToString(-value.num)
    [] value.t = "number" /\ value.den = 0 -> "NaN"
    [] value.t = "null" -> "null"
    [] value.t = "boolean" -> IF value.b THEN "true" ELSE "false"
    [] OTHER -> "undefined"

RECURSIVE Join(_, _)
Join(segments, sep) ==
  IF Len(segments) = 0 THEN ""
  ELSE IF Len(segments) = 1 THEN segments[1]
  ELSE segments[1] \o sep \o Join(Tail(segments), sep)

(***************************************************************************)
(* Objects whose key order matters (fieldErrors) are sequences of          *)
(* [key, value] entries in insertion order.                                *)
(***************************************************************************)
OrdKeys(o) == {o[i].key : i \in 1..Len(o)}
OrdGet(o, k) == o[CHOOSE i \in 1..Len(o) : o[i].key = k].value

\* o[k] = v: an existing key keeps its place, a new key goes last.
OrdSet(o, k, v) ==
  IF k \in OrdKeys(o)
  THEN [i \in 1..Len(o) |-> IF o[i].key = k THEN [key |-> k, value |-> v] ELSE o[i]]
  ELSE Append(o, [key |-> k, value |-> v])

\* Canonical array-index keys ("0", "1", ...) enumerate first, in numeric order.
IsArrayIndex(k) == \E n \in 0..9 : k = NatToString(n)

RECURSIVE IndexValues(_, _)
IndexValues(o, n) ==
  IF n > 9 THEN <<>>
  ELSE (IF NatToString(n) \in OrdKeys(o) THEN <<OrdGet(o, NatToString(n))>> ELSE <<>>)
       \o IndexValues(o, n + 1)

\* Object.values(o): integer-like keys ascending, then the others as inserted.
ObjectValues(o) ==
  LET others == SelectSeq(o, LAMBDA e : ~IsArrayIndex(e.key))
  IN IndexValues(o, 0) \o [i \in 1..Len(others) |-> others[i].value]

(***************************************************************************)
(* api/error.ts                                                            *)
(***************************************************************************)
\* Mutant: the null test is missing.
isObjectTypeofOnly(value) == typeof(value) = "object"

isObject(value) == typeof(value) = "object" /\ value # Null

isValidationErrorThrows(value) ==
  isObject(value) /\ IsNullish(value)                       \* value.loc

isValidationError(value) ==
  IF ~isObject(value) THEN FALSE
  ELSE /\ IsArray(Prop(value, "loc"))
       /\ typeof(Prop(value, "msg")) = "string"
       /\ typeof(Prop(value, "type")) = "string"

isHttpValidationErrorThrows(value) ==
  \/ isObject(value) /\ IsNullish(value)                    \* value.detail
  \/ /\ isObject(value)
     /\ ~IsNullish(value)
     /\ IsArray(Prop(value, "detail"))
     /\ LET detail == Prop(value, "detail").a
        IN \E i \in 1..Len(detail) :
             /\ \A j \in 1..(i - 1) : isValidationError(detail[j])
             /\ isValidationErrorThrows(detail[i])

isHttpValidationError(value) ==
  IF ~isObject(value) THEN FALSE
  ELSE IF Prop(value, "detail") = Undef THEN FALSE
  ELSE /\ IsArray(Prop(value, "detail"))
       /\ \A i \in 1..Len(Prop(value, "detail").a) :
            isValidationError(Prop(value, "detail").a[i])

isErrorResponseThrows(value) ==
  \/ isObject(value) /\ IsNullish(value)                    \* value.error
  \/ /\ isObject(value)
     /\ ~IsNullish(value)
     /\ isObject(Prop(value, "error"))
     /\ IsNullish(Prop(value, "error"))                     \* value.error.code

isErrorResponse(value) ==
  IF ~isObject(value) \/ ~isObject(Prop(value, "error")) THEN FALSE
  ELSE /\ typeof(Prop(Prop(value, "error"), "code")) = "string"
       /\ typeof(Prop(Prop(value, "error"), "message")) = "string"

toFieldPath(loc) ==
  LET segments == [i \in 1..Len(loc) |-> StringOf(loc[i])]
      filtered == SelectSeq(segments, LAMBDA segment : segment # "body")
  IN IF Len(filtered) = 0 THEN "root.serverError" ELSE Join(filtered, ".")

RECURSIVE CollectFieldErrors(_, _)
CollectFieldErrors(detail, fieldErrors) ==
  IF Len(detail) = 0 THEN fieldErrors
  ELSE CollectFieldErrors(
         Tail(detail),
         OrdSet(fieldErrors,
                toFieldPath(Prop(detail[1], "loc").a),
                Prop(detail[1], "msg").s))

parseValidationErrorThrows(error) ==
  \/ ~IsArray(Prop(error, "detail"))                        \* for ... of
  \/ \E i \in 1..Len(Prop(error, "detail").a) :
       LET issue == Prop(error, "detail").a[i]
       IN IsNullish(issue) \/ ~IsArray(Prop(issue, "loc"))  \* issue.loc, loc.map

parseValidationError(error) ==
  LET fieldErrors == CollectFieldErrors(Prop(error, "detail").a, <<>>)
      values == ObjectValues(fieldErrors)
  IN [message |-> IF Len(values) > 0 THEN values[1]
                  ELSE "Validation failed for this request.",
      fieldErrors |-> fieldErrors]

\* Mutant: the backend's details are dropped.
ErrorResponseResultNoDetails(error, status) ==
  HttpErr(Prop(Prop(error, "error"), "message").s, status,
          [code |-> Prop(Prop(error, "error"), "code"),
           details |-> Undef,
           errors |-> <<[key |-> "root.serverError",
                         value |-> Prop(Prop(error, "error"), "message").s]>>])

ErrorResponseResult(error, status) ==
  HttpErr(Prop(Prop(error, "error"), "message").s, status,
          [code |-> Prop(Prop(error, "error"), "code"),
           details |-> Prop(Prop(error, "error"), "details"),
           errors |-> <<[key |-> "root.serverError",
                         value |-> Prop(Prop(error, "error"), "message").s]>>])

ValidationErrorResult(error, status) ==
  LET parsed == parseValidationError(error)
  IN HttpErr(parsed.message, status, [errors |-> parsed.fieldErrors])

GenericErrorResult(error, status) ==
  HttpErr(error.message, status,
          [errors |-> <<[key |-> "root.serverError", value |-> error.message]>>])

UnexpectedErrorResult(status) ==
  HttpErr("Unexpected API error", status,
          [errors |-> <<[key |-> "root.serverError", value |-> "Unexpected API error"]>>])

DefaultStatus == 500

\* Mutant: the validation shape is tested before the structured shape.
normalizeApiErrorValidationFirst(error, status) ==
  IF error.t = "HttpError" THEN error
  ELSE IF isHttpValidationErrorThrows(error) THEN Thrown
  ELSE IF isHttpValidationError(error)
       THEN (IF parseValidationErrorThrows(error) THEN Thrown
             ELSE ValidationErrorResult(error, status))
  ELSE IF isErrorResponseThrows(error) THEN Thrown
  ELSE IF isErrorResponse(error) THEN ErrorResponseResult(error, status)
  ELSE IF error.t = "Error" THEN GenericErrorResult(error, status)
  ELSE UnexpectedErrorResult(status)

\* normalizeApiError with the status parameter already defaulted.
normalizeApiErrorWith(error, status) ==
  IF error.t = "HttpError" THEN error
  ELSE IF isErrorResponseThrows(error) THEN Thrown
  ELSE IF isErrorResponse(error) THEN ErrorResponseResult(error, status)
  ELSE IF isHttpValidationErrorThrows(error) THEN Thrown
  ELSE IF isHttpValidationError(error)
       THEN (IF parseValidationErrorThrows(error) THEN Thrown
             ELSE ValidationErrorResult(error, status))
  ELSE IF error.t = "Error" THEN GenericErrorResult(error, status)
  ELSE UnexpectedErrorResult(status)

\* statusArg is <<>> when the caller omits it, <<S>> otherwise.
normalizeApiError(error, statusArg) ==
  normalizeApiErrorWith(error, IF statusArg = <<>> THEN DefaultStatus ELSE statusArg[1])

(***************************************************************************)
(* Inputs of the normalizer.                                               *)
(***************************************************************************)
Segments == {Str("body"), Str("a"), Num(0)}

RECURSIVE SeqsUpTo(_, _)
SeqsUpTo(S, n) ==
  IF n = 0 THEN {<<>>}
  ELSE LET shorter == SeqsUpTo(S, n - 1)
       IN shorter \cup {Append(s, x) : s \in {q \in shorter : Len(q) = n - 1}, x \in S}

Locs == SeqsUpTo(Segments, MaxLoc)

\* The i-th issue of a payload carries the i-th message.
IssueMsgs == <<"Field required", "X", "Y", "Z">>

Issue(loc, i) ==
  Obj([loc |-> Arr(loc), msg |-> Str(IssueMsgs[i]), type |-> Str("value_error")])

IssueLists ==
  {[i \in 1..Len(locs) |-> Issue(locs[i], i)] : locs \in SeqsUpTo(Locs, MaxIssues)}

\* Issue entries that fail isValidationError.
MalformedIssues ==
  {Null, Str("bad"), Obj([loc |-> Str("body"), msg |-> Str("X"), type |-> Str("t")]),
   Obj([loc |-> Arr(<<Str("a")>>), msg |-> Num(1), type |-> Str("t")]),
   Obj([loc |-> Arr(<<Str("a")>>), msg |-> Str("X")])}

DetailValues ==
  {Arr(l) : l \in {q \in IssueLists : Len(q) <= 1}}
    \cup {Arr(<<m>>) : m \in MalformedIssues}
    \cup {Arr(<<Issue(<<Str("a")>>, 1), m>>) : m \in MalformedIssues}
    \cup {Null, Str("oops"), Obj(EmptyObj)}

ErrorValues ==
  {Obj([code |-> Str("conflict"), message |-> Str("Resource already exists"),
        details |-> Null]),
   Obj([code |-> Str("not_found"), message |-> Str("")]),
   Obj([code |-> Str("bad"), message |-> Str("Broken"),
        details |-> Obj([hint |-> Str("retry")])]),
   Obj([code |-> Num(7), message |-> Str("numeric code")]),
   Obj([code |-> Str("no_message")]),
   Obj(EmptyObj), Null, Str("failed"), Arr(<<>>)}

ObjectInputs ==
  {Obj([detail |-> Arr(l)]) : l \in IssueLists}
    \cup {Obj([error |-> e]) : e \in ErrorValues}
    \cup {Obj([detail |-> d]) : d \in DetailValues}
    \cup {Obj([error |-> e, detail |-> d]) : e \in ErrorValues, d \in DetailValues}
    \cup {Obj(EmptyObj), Arr(<<>>)}

ErrorInstances ==
  {Err("Failed to fetch", EmptyObj), Err("", EmptyObj),
   Err("wrapped", [error |-> Obj([code |-> Str("conflict"), message |-> Str("inner")])]),
   Err("wrapped", [detail |-> Arr(<<Issue(<<Str("body"), Str("a")>>, 1)>>)])}

HttpErrorInstances ==
  {HttpErr("Response payload is empty", 204, Undef),
   HttpErr("Version must be an integer greater than or equal to 1", 400,
           [errors |-> <<[key |-> "version",
                          value |-> "Must be an integer greater than or equal to 1"]>>])}

PrimitiveInputs == {Null, Undef, Str(""), Str("boom"), Num(0), Num(404), NaN, Bool(FALSE)}

NormInputs == ObjectInputs \cup ErrorInstances \cup HttpErrorInstances \cup PrimitiveInputs

StatusArgs == {<<>>, <<409>>}

(***************************************************************************)
(* The normalizer as a state machine: a call is made, then it returns.     *)
(***************************************************************************)
InitNorm ==
  /\ nzError \in NormInputs
  /\ nzStatus \in StatusArgs
  /\ nzResult = Pending
  /\ AdapterIdle
  /\ MapperIdle
  /\ ListIdle
  /\ ProviderIdle
  /\ ClientIdle
  /\ ConcurrentIdle
  /\ PanelIdle

Normalize ==
  /\ nzResult = Pending
  /\ nzResult' = normalizeApiError(nzError, nzStatus)
  /\ UNCHANGED <<nzError, nzStatus, adapterVars, mapperVars, listVars, providerVars,
                 clientVars, concurrentVars, panelVars>>

NextNorm == Normalize

SpecNorm == InitNorm /\ [][NextNorm]_vars

(***************************************************************************)
(* api/scopedApiAdapter.ts                                                 *)
(***************************************************************************)
scopedResourceNames == {"icon-sets", "layout-sets", "link-sets", "graph-types", "themes"}

Fulfilled(result) == [state |-> "fulfilled", result |-> result]
Rejected(reason) == [state |-> "rejected", reason |-> reason]

\* A field of an ApiResult; an absent field reads as undefined.
ResultField(result, k) == IF k \in DOMAIN result THEN result[k] ELSE Undef

normalizeUnhandledError(error) ==
  IF error.t = "HttpError" THEN error ELSE normalizeApiError(error, <<500>>)

\* Mutant: an empty payload is handed back as undefined.
unwrapResponseNoEmptyCheck(request) ==
  IF request.state = "rejected" THEN Rejected(request.reason)
  ELSE IF Truthy(ResultField(request.result, "error"))
    THEN Rejected(normalizeApiError(ResultField(request.result, "error"),
                                    <<request.result.status>>))
  ELSE Fulfilled(ResultField(request.result, "data"))

\* What the try block of unwrapResponse throws (Rejected) or returns (Fulfilled).
unwrapResponseTry(request) ==
  IF request.state = "rejected" THEN Rejected(request.reason)
  ELSE IF Truthy(ResultField(request.result, "error"))
    THEN Rejected(normalizeApiError(ResultField(request.result, "error"),
                                    <<request.result.status>>))
  ELSE IF ResultField(request.result, "data") = Undef
    THEN Rejected(HttpErr("Response payload is empty", request.result.status, Undef))
  ELSE Fulfilled(ResultField(request.result, "data"))

unwrapResponse(request) ==
  LET tried == unwrapResponseTry(request)
  IN IF tried.state = "rejected"
     THEN Rejected(normalizeUnhandledError(tried.reason))
     ELSE tried

unwrapNoContent(request) ==
  IF request.state = "rejected" THEN Rejected(normalizeUnhandledError(request.reason))
  ELSE IF Truthy(ResultField(request.result, "error"))
    THEN Rejected(normalizeUnhandledError(
                    normalizeApiError(ResultField(request.result, "error"),
                                      <<request.result.status>>)))
  ELSE Fulfilled(Undef)

NumberIsInteger(value) == value.t = "number" /\ value.den = 1

\* value < 1 for a number (every comparison with NaN is false).
LessThanOne(value) == value.t = "number" /\ value.den # 0 /\ value.num < value.den

VersionError ==
  HttpErr("Version must be an integer greater than or equal to 1", 400,
          [errors |-> <<[key |-> "version",
                         value |-> "Must be an integer greater than or equal to 1"]>>])

\* Mutant: the lower limit is 0.
positiveIntegerOrUndefinedThrowsBelowZero(value) ==
  /\ value # Undef
  /\ ~NumberIsInteger(value) \/ (value.t = "number" /\ value.den # 0 /\ value.num < 0)

positiveIntegerOrUndefinedThrows(value) ==
  /\ value # Undef
  /\ ~NumberIsInteger(value) \/ LessThanOne(value)

\* The value returned when positiveIntegerOrUndefined does not throw.
positiveIntegerOrUndefined(value) == value

bundleQueryFor(resource, query) ==
  CASE resource = "icon-sets" ->
         [stage |-> query.stage, icon_set_version |-> positiveIntegerOrUndefined(query.version)]
    [] resource = "layout-sets" ->
         [stage |-> query.stage, layout_set_version |-> positiveIntegerOrUndefined(query.version)]
    [] resource = "link-sets" ->
         [stage |-> query.stage, link_set_version |-> positiveIntegerOrUndefined(query.version)]
    [] resource = "graph-types" ->
         [stage |-> query.stage, graph_type_version |-> positiveIntegerOrUndefined(query.version)]
    [] resource = "themes" ->
         [stage |-> query.stage, theme_version |-> positiveIntegerOrUndefined(query.version)]

ResourceOps == {"list", "get", "create", "update", "delete", "getBundle", "publish"}
EntryReadOps == {"getIconEntries", "getLayoutEntries", "getLinkEntries",
                 "getThemeVariables", "getGraphRuntime"}
EntryWriteOps == {"upsertIconEntry", "deleteIconEntry", "upsertLayoutEntry",
                  "deleteLayoutEntry", "upsertLinkEntry", "deleteLinkEntry",
                  "upsertThemeVariable", "deleteThemeVariable"}
OtherOps == {"resolveIconSets"}
AdapterOps == ResourceOps \cup EntryReadOps \cup EntryWriteOps \cup OtherOps

\* The methods that evaluate positiveIntegerOrUndefined(query.version).
QueryOps == {"getBundle"} \cup EntryReadOps

Request(method, path, query) == [method |-> method, path |-> path, query |-> query]

\* The apiClient call each method makes.
RequestFor(call) ==
  LET op == call.op
      base == "/v1/" \o call.resource
      version == positiveIntegerOrUndefined(call.query.version)
  IN CASE op = "list" -> Request("GET", base, EmptyObj)
       [] op = "get" -> Request("GET", base \o "/{id}", EmptyObj)
       [] op = "create" -> Request("POST", base, EmptyObj)
       [] op = "update" -> Request("PUT", base \o "/{id}", EmptyObj)
       [] op = "delete" -> Request("DELETE", base \o "/{id}", EmptyObj)
       [] op = "getBundle" ->
            Request("GET", base \o "/{id}/bundle", bundleQueryFor(call.resource, call.query))
       [] op = "publish" -> Request("POST", base \o "/{id}/publish", EmptyObj)
       [] op = "getIconEntries" ->
            Request("GET", "/v1/icon-sets/{id}/entries",
                    [stage |-> call.query.stage, icon_set_version |-> version])
       [] op = "upsertIconEntry" -> Request("PUT", "/v1/icon-sets/{id}/entries/{key}", EmptyObj)
       [] op = "deleteIconEntry" ->
            Request("DELETE", "/v1/icon-sets/{id}/entries/{key}", EmptyObj)
       [] op = "getLayoutEntries" ->
            Request("GET", "/v1/layout-sets/{id}/entries",
                    [stage |-> call.query.stage, layout_set_version |-> version])
       [] op = "upsertLayoutEntry" ->
            Request("PUT", "/v1/layout-sets/{id}/entries/{key}", EmptyObj)
       [] op = "deleteLayoutEntry" ->
            Request("DELETE", "/v1/layout-sets/{id}/entries/{key}", EmptyObj)
       [] op = "getLinkEntries" ->
            Request("GET", "/v1/link-sets/{id}/entries",
                    [stage |-> call.query.stage, link_set_version |-> version])
       [] op = "upsertLinkEntry" -> Request("PUT", "/v1/link-sets/{id}/entries/{key}", EmptyObj)
       [] op = "deleteLinkEntry" ->
            Request("DELETE", "/v1/link-sets/{id}/entries/{key}", EmptyObj)
       [] op = "getThemeVariables" ->
            Request("GET", "/v1/themes/{id}/variables",
                    [stage |-> call.query.stage, theme_version |-> version])
       [] op = "upsertThemeVariable" ->
            Request("PUT", "/v1/themes/{id}/variables/{key}", EmptyObj)
       [] op = "deleteThemeVariable" ->
            Request("DELETE", "/v1/themes/{id}/variables/{key}", EmptyObj)
       [] op = "getGraphRuntime" ->
            Request("GET", "/v1/graph-types/{id}/runtime",
                    [stage |-> call.query.stage, graph_type_version |-> version])
       [] op = "resolveIconSets" -> Request("POST", "/v1/icon-sets/resolve", EmptyObj)

\* The requests a method hands to apiClient before it awaits.
IssuedRequests(call) == <<RequestFor(call)>>

\* Mutant: a failed response is retried once.
RetriedRequestsOnFailure(call, request) ==
  IF request.state = "rejected" \/ "error" \in DOMAIN request.result
  THEN <<RequestFor(call)>> ELSE <<>>

\* The requests issued after the first one has settled: unwrapResponse and
\* unwrapNoContent make none.
RetriedRequests(call, request) == <<>>

ListKey(resource) ==
  CASE resource = "icon-sets" -> "iconSets"
    [] resource = "layout-sets" -> "layoutSets"
    [] resource = "link-sets" -> "linkSets"
    [] resource = "graph-types" -> "graphTypes"
    [] resource = "themes" -> "themes"

\* How the method's promise settles once the request promise has settled.
MethodOutcome(call, request) ==
  IF call.op = "delete" THEN unwrapNoContent(request)
  ELSE LET payload == unwrapResponse(request)
       IN IF call.op = "list" /\ payload.state = "fulfilled"
          THEN (IF IsNullish(payload.result) THEN Rejected(Thrown)
                ELSE Fulfilled(Prop(payload.result, ListKey(call.resource))))
          ELSE payload

(***************************************************************************)
(* Invocations and responses of the adapter.                               *)
(***************************************************************************)
NoQuery == [stage |-> Undef, version |-> Undef]

Versions == {Undef, Num(0), Num(-1), Frac(3, 2), NaN, Num(1), Num(3)}
Queries == {[stage |-> s, version |-> v] : s \in {Undef, Str("published")}, v \in Versions}

Call(op, resource, query) == [op |-> op, resource |-> resource, query |-> query]

Calls ==
  {Call("getBundle", r, q) : r \in scopedResourceNames, q \in Queries}
    \cup {Call(op, r, NoQuery) : op \in ResourceOps \ {"getBundle"}, r \in scopedResourceNames}
    \cup {Call(op, "", q) : op \in EntryReadOps, q \in Queries}
    \cup {Call(op, "", NoQuery) : op \in EntryWriteOps \cup OtherOps}

PayloadFor(call) ==
  IF call.op = "list" THEN Obj([k \in {ListKey(call.resource)} |-> Arr(<<>>)])
  ELSE Obj([schemaVersion |-> Str("v1")])

\* Bodies of non-2xx responses, as the HTTP client parses them.
ErrorBodies ==
  {Obj([error |-> Obj([code |-> Str("conflict"), message |-> Str("Resource already exists"),
                       details |-> Null])]),
   Obj([detail |-> Arr(<<Issue(<<Str("body"), Str("a")>>, 1)>>)]),
   Str("Internal Server Error"), Str(""), Null}

\* The ApiResult of the HTTP client: data (undefined for an empty body) on a 2xx
\* response, error on any other.
ApiResults(call) ==
  {[data |-> d, status |-> s] : d \in {PayloadFor(call), Undef}, s \in {200, 204}}
    \cup {[error |-> e, status |-> s] : e \in ErrorBodies, s \in {404, 422, 500}}

NetworkErrors == {Err("Failed to fetch", EmptyObj)}

InitAdapter == NormIdle /\ AdapterIdle /\ MapperIdle /\ ListIdle /\ ProviderIdle /\ ClientIdle /\ ConcurrentIdle /\ PanelIdle

\* A method is called: it runs up to its first await.
Invoke(call) ==
  /\ adPc = "idle"
  /\ adCall' = call
  /\ IF call.op \in QueryOps /\ positiveIntegerOrUndefinedThrows(call.query.version)
     THEN /\ adPc' = "settled"
          /\ adOutcome' = Rejected(VersionError)
          /\ httpLog' = httpLog
     ELSE /\ adPc' = "inflight"
          /\ adOutcome' = adOutcome
          /\ httpLog' = httpLog \o IssuedRequests(call)
  /\ UNCHANGED <<adResponse, normVars, mapperVars, listVars, providerVars, clientVars,
                 concurrentVars, panelVars>>

\* The request promise settles and the method resumes after its await.
Settle(request) ==
  /\ adPc = "inflight"
  /\ adResponse' = request
  /\ adOutcome' = MethodOutcome(adCall, request)
  /\ httpLog' = httpLog \o RetriedRequests(adCall, request)
  /\ adPc' = "settled"
  /\ UNCHANGED <<adCall, normVars, mapperVars, listVars, providerVars, clientVars,
                 concurrentVars, panelVars>>

Respond ==
  /\ adPc = "inflight"
  /\ \E result \in ApiResults(adCall) : Settle(Fulfilled(result))

NetworkFail ==
  /\ adPc = "inflight"
  /\ \E reason \in NetworkErrors : Settle(Rejected(reason))

NextAdapter ==
  \/ \E call \in Calls : Invoke(call)
  \/ Respond
  \/ NetworkFail

SpecAdapter == InitAdapter /\ [][NextAdapter]_vars

(***************************************************************************)
(* dataProvider.ts: the record mapper                                      *)
(***************************************************************************)
isObjectDP(value) == typeof(value) = "object" /\ value # Null

\* ensureObject throws for this value.
ensureObjectThrows(value) == ~isObjectDP(value) \/ IsArray(value)

ensureObjectError(field) ==
  HttpErr("Field '" \o field \o "' must be an object", 400,
          [errors |-> <<[key |-> field, value |-> "Must be an object"]>>])

scopedResourceMeta ==
  [r \in scopedResourceNames |->
     CASE r = "icon-sets" -> [name |-> r, label |-> "Icon Sets", idField |-> "iconSetId"]
       [] r = "layout-sets" -> [name |-> r, label |-> "Layout Sets", idField |-> "layoutSetId"]
       [] r = "link-sets" -> [name |-> r, label |-> "Link Sets", idField |-> "linkSetId"]
       [] r = "graph-types" -> [name |-> r, label |-> "Graph Types", idField |-> "graphTypeId"]
       [] r = "themes" -> [name |-> r, label |-> "Themes", idField |-> "themeId"]]

extractRecordIdThrows(resource, record) ==
  typeof(Prop(record, scopedResourceMeta[resource].idField)) \notin {"string", "number"}

extractRecordIdError(resource) ==
  HttpErr("Record is missing '" \o scopedResourceMeta[resource].idField \o "'", 500, Undef)

extractRecordId(resource, record) == Prop(record, scopedResourceMeta[resource].idField)

\* { ...base, ...over }: the keys of both, over's value where both have the key.
Spread(base, over) ==
  [k \in DOMAIN base \cup DOMAIN over |-> IF k \in DOMAIN over THEN over[k] ELSE base[k]]

\* The own enumerable properties a spread copies from an object.
OwnProps(value) == IF value.t \in {"object", "Error"} THEN value.f ELSE EmptyObj

mapSummaryToRaRecord(resource, summary) ==
  IF ensureObjectThrows(summary) THEN Rejected(ensureObjectError(resource \o " summary"))
  ELSE IF extractRecordIdThrows(resource, summary) THEN Rejected(extractRecordIdError(resource))
  ELSE Fulfilled(Obj(Spread([id |-> extractRecordId(resource, summary)], OwnProps(summary))))

\* The merge with the spreads the other way round: { id, ...draft, ...rawRecord }.
mapRecordToRaRecordBaseWins(resource, record) ==
  IF ensureObjectThrows(record) THEN Rejected(ensureObjectError(resource \o " record"))
  ELSE IF extractRecordIdThrows(resource, record) THEN Rejected(extractRecordIdError(resource))
  ELSE IF Prop(record, "draft") # Undef /\ ensureObjectThrows(Prop(record, "draft"))
    THEN Rejected(ensureObjectError("draft"))
  ELSE LET draft == IF Prop(record, "draft") # Undef
                    THEN OwnProps(Prop(record, "draft")) ELSE EmptyObj
       IN Fulfilled(Obj(Spread(Spread([id |-> extractRecordId(resource, record)], draft),
                               OwnProps(record))))

mapRecordToRaRecord(resource, record) ==
  IF ensureObjectThrows(record) THEN Rejected(ensureObjectError(resource \o " record"))
  ELSE IF extractRecordIdThrows(resource, record) THEN Rejected(extractRecordIdError(resource))
  ELSE IF Prop(record, "draft") # Undef /\ ensureObjectThrows(Prop(record, "draft"))
    THEN Rejected(ensureObjectError("draft"))
  ELSE LET draft == IF Prop(record, "draft") # Undef
                    THEN OwnProps(Prop(record, "draft")) ELSE EmptyObj
       IN Fulfilled(Obj(Spread(Spread([id |-> extractRecordId(resource, record)],
                                      OwnProps(record)),
                               draft)))

(***************************************************************************)
(* Inputs of the record mapper.                                            *)
(***************************************************************************)
\* Marks an optional field that the object does not have.
Absent == [absent |-> TRUE]

\* An object with the given optional fields; Absent leaves the key out.
ObjOf(fields) == Obj([k \in {x \in DOMAIN fields : fields[x] # Absent} |-> fields[k]])

IdValues == {Absent, Str("icons-alpha"), Num(7), Null, Bool(TRUE)}

DraftValues(idField) ==
  {Absent,
   Obj([name |-> Str("Alpha"), version |-> Num(2)]),
   Obj([id |-> Str("draft-id"), name |-> Str("Alpha")]),
   Obj([k \in {idField, "name"} |-> IF k = "name" THEN Str("Alpha") ELSE Str("draft-own")]),
   Obj([k \in {idField, "name"} |-> IF k = "name" THEN Str("Alpha") ELSE Null]),
   Obj([name |-> Str("Alpha"), draft |-> Obj([name |-> Str("Older")])]),
   Obj(EmptyObj), Null, Str("bad"), Arr(<<>>)}

MapperObjects(resource) ==
  LET idField == scopedResourceMeta[resource].idField
  IN {ObjOf([k \in {idField, "id", "name", "draft"} |->
               CASE k = idField -> idv
                 [] k = "id" -> ownId
                 [] k = "name" -> name
                 [] k = "draft" -> draft]) :
        idv \in IdValues,
        ownId \in {Absent, Str("other")},
        name \in {Absent, Str("Top")},
        draft \in DraftValues(idField)}

MapperInputs(resource) == MapperObjects(resource) \cup {Null, Undef, Str("row"), Arr(<<>>)}

InitMapper ==
  /\ NormIdle
  /\ AdapterIdle
  /\ ListIdle
  /\ ProviderIdle
  /\ ClientIdle
  /\ ConcurrentIdle
  /\ PanelIdle
  /\ mpResource \in scopedResourceNames
  /\ mpInput \in MapperInputs(mpResource)
  /\ mpFn = ""
  /\ mpResult = Pending
  /\ mpAgain = Pending

MapSummary ==
  /\ mpResult = Pending
  /\ mpFn' = "mapSummaryToRaRecord"
  /\ mpResult' = mapSummaryToRaRecord(mpResource, mpInput)
  /\ UNCHANGED <<mpResource, mpInput, mpAgain, normVars, adapterVars, listVars,
                 providerVars, clientVars, concurrentVars, panelVars>>

MapRecord ==
  /\ mpResult = Pending
  /\ mpFn' = "mapRecordToRaRecord"
  /\ mpResult' = mapRecordToRaRecord(mpResource, mpInput)
  /\ UNCHANGED <<mpResource, mpInput, mpAgain, normVars, adapterVars, listVars,
                 providerVars, clientVars, concurrentVars, panelVars>>

\* The record mapRecordToRaRecord returned is mapped once more, as happens when a
\* flattened record is handed back to the mapper.
MapRecordAgain ==
  /\ mpFn = "mapRecordToRaRecord"
  /\ mpResult # Pending
  /\ mpResult.state = "fulfilled"
  /\ mpAgain = Pending
  /\ mpAgain' = mapRecordToRaRecord(mpResource, mpResult.result)
  /\ UNCHANGED <<mpResource, mpInput, mpFn, mpResult, normVars, adapterVars, listVars,
                 providerVars, clientVars, concurrentVars, panelVars>>

NextMapper == MapSummary \/ MapRecord \/ MapRecordAgain

SpecMapper == InitMapper /\ [][NextMapper]_vars

(***************************************************************************)
(* dataProvider.ts: strings                                                *)
(***************************************************************************)
UpperCaseLetters == "ABCDEFGHIJKLMNOPQRSTUVWXYZ"
LowerCaseLetters == "abcdefghijklmnopqrstuvwxyz"

\* The lower-case letter of each upper-case letter.
LowerOf ==
  [c \in {SubSeq(UpperCaseLetters, i, i) : i \in 1..Len(UpperCaseLetters)} |->
     LET i == CHOOSE i \in 1..Len(UpperCaseLetters) : SubSeq(UpperCaseLetters, i, i) = c
     IN SubSeq(LowerCaseLetters, i, i)]

\* One character of String.prototype.toLowerCase.
LowerChar(c) == IF c \in DOMAIN LowerOf THEN LowerOf[c] ELSE c

RECURSIVE toLowerCase(_)
toLowerCase(s) == IF s = "" THEN "" ELSE LowerChar(Head(s)) \o toLowerCase(Tail(s))

RECURSIVE trimStart(_)
trimStart(s) == IF s # "" /\ Head(s) = " " THEN trimStart(Tail(s)) ELSE s

RECURSIVE trimEnd(_)
trimEnd(s) ==
  IF s # "" /\ SubSeq(s, Len(s), Len(s)) = " " THEN trimEnd(SubSeq(s, 1, Len(s) - 1)) ELSE s

trim(s) == trimEnd(trimStart(s))

\* String.prototype.includes.
includes(s, search) ==
  \E i \in 1..(Len(s) - Len(search) + 1) : SubSeq(s, i, i + Len(search) - 1) = search

\* The collation order of the characters of the model: space and punctuation
\* before digits before letters.
Collation == " -0123456789abcdefghijklmnopqrstuvwxyz"

CollationRankOf ==
  [c \in {SubSeq(Collation, i, i) : i \in 1..Len(Collation)} |->
     CHOOSE i \in 1..Len(Collation) : SubSeq(Collation, i, i) = c]

CollationRank(c) == IF c \in DOMAIN CollationRankOf THEN CollationRankOf[c] ELSE 0

\* String.prototype.localeCompare on lower-cased strings: -1, 0 or 1.
RECURSIVE localeCompare(_, _)
localeCompare(a, b) ==
  CASE a = "" /\ b = "" -> 0
    [] a = "" /\ b # "" -> -1
    [] a # "" /\ b = "" -> 1
    [] OTHER ->
         IF CollationRank(Head(a)) < CollationRank(Head(b)) THEN -1
         ELSE IF CollationRank(Head(a)) > CollationRank(Head(b)) THEN 1
         ELSE localeCompare(Tail(a), Tail(b))

\* String(value ?? "").
StringOrEmpty(value) ==
  CASE IsNullish(value) -> ""
    [] value.t \in {"object", "Error"} -> "[object Object]"
    [] OTHER -> StringOf(value)

\* left === right for the values a record field or a filter value can be.
StrictEquals(left, right) ==
  /\ left = right
  /\ left # NaN
  /\ left.t \notin {"object", "array", "Error"}

(***************************************************************************)
(* dataProvider.ts: filter, sort and slice of a listed resource            *)
(***************************************************************************)
ensureScopedResourceThrows(resource) == resource \notin scopedResourceNames

ensureScopedResourceError(resource) ==
  HttpErr("Resource '" \o resource \o "' is out of scope", 400, Undef)

compareValues(left, right) ==
  IF typeof(left) = "number" /\ typeof(right) = "number"
  THEN IF left.den = 1 /\ right.den = 1 THEN Num(left.num - right.num) ELSE NaN
  ELSE Num(localeCompare(toLowerCase(StringOrEmpty(left)), toLowerCase(StringOrEmpty(right))))

\* The filter entries matchesFilter keeps: not null, not undefined, not a blank string.
FilterEntries(filter) ==
  {k \in DOMAIN filter.f :
     /\ ~IsNullish(filter.f[k])
     /\ typeof(filter.f[k]) = "string" => Len(trim(filter.f[k].s)) > 0}

\* The free-text test that ignores case on one side only (the query is not lower-cased).
MatchesQueryCaseSensitive(record, value) ==
  \E k \in DOMAIN record.f : includes(toLowerCase(StringOrEmpty(record.f[k])), value.s)

MatchesQuery(record, value) ==
  \E k \in DOMAIN record.f :
    includes(toLowerCase(StringOrEmpty(record.f[k])), toLowerCase(value.s))

matchesFilter(record, filter) ==
  IF ~Truthy(filter) THEN TRUE
  ELSE \A key \in FilterEntries(filter) :
         IF key = "q" /\ typeof(filter.f[key]) = "string"
         THEN MatchesQuery(record, filter.f[key])
         ELSE StrictEquals(Prop(record, key), filter.f[key])

RECURSIVE ArrayFilter(_, _)
\* records.filter((record) => matchesFilter(record, filter))
ArrayFilter(records, filter) ==
  IF records = <<>> THEN <<>>
  ELSE (IF matchesFilter(Head(records), filter) THEN <<Head(records)>> ELSE <<>>)
         \o ArrayFilter(Tail(records), filter)

\* The comparator handed to Array.prototype.sort.
SortComparator(sort, left, right) ==
  LET v == compareValues(Prop(left, sort.f.field.s), Prop(right, sort.f.field.s))
      sortOrderMultiplier == IF sort.f.order = Str("ASC") THEN 1 ELSE -1
  IN IF v = NaN THEN NaN ELSE Num(v.num * sortOrderMultiplier)

\* What Array.prototype.sort makes of a comparator result: NaN counts as 0.
SortOrder(v) == IF v = NaN THEN 0 ELSE v.num

Sign(n) == IF n < 0 THEN -1 ELSE IF n > 0 THEN 1 ELSE 0

IndexOrders(n) == {p \in [1..n -> 1..n] : \A i, j \in 1..n : p[i] = p[j] => i = j}

\* What the sort sees of the comparator on each pair of items, by index.
ComparatorTable(items, sort) ==
  [i \in 1..Len(items) |->
     [j \in 1..Len(items) |-> SortOrder(SortComparator(sort, items[i], items[j]))]]

\* A consistent comparator orders the items in classes: antisymmetric and transitive.
ConsistentComparator(c) ==
  /\ \A i, j \in DOMAIN c : Sign(c[i][j]) = -Sign(c[j][i])
  /\ \A i, j, k \in DOMAIN c : (c[i][j] <= 0 /\ c[j][k] <= 0) => c[i][k] <= 0

\* The sort that moves equal items past each other (not stable).
ArraySortUnstable(items, sort) ==
  LET c == ComparatorTable(items, sort)
      n == Len(items)
  IN {[i \in 1..n |-> items[p[i]]] :
        p \in {q \in IndexOrders(n) : \A i, j \in 1..n : i < j => c[q[i]][q[j]] <= 0}}

\* The arrays Array.prototype.sort can leave: the stable order when the comparator
\* is consistent, an implementation-defined order when it is not.
ArraySort(items, sort) ==
  LET c == ComparatorTable(items, sort)
      n == Len(items)
      stable == {p \in IndexOrders(n) :
                   \A i, j \in 1..n :
                     i < j => (c[p[i]][p[j]] < 0 \/ (c[p[i]][p[j]] = 0 /\ p[i] < p[j]))}
      order == IF ConsistentComparator(c) THEN stable ELSE IndexOrders(n)
  IN {[i \in 1..n |-> items[p[i]]] : p \in order}

\* The arrays `sorted` can be once the sort of paginateAndSort has run.
SortedOutcomes(filtered, sort) ==
  IF Truthy(sort) THEN ArraySort(filtered, sort) ELSE {filtered}

DefaultPage == 1
DefaultPerPage == 25

\* params.pagination?.page ?? 1 and params.pagination?.perPage ?? 25
PageOf(pagination) ==
  IF IsNullish(pagination) \/ IsNullish(Prop(pagination, "page"))
  THEN DefaultPage ELSE pagination.f.page.num

PerPageOf(pagination) ==
  IF IsNullish(pagination) \/ IsNullish(Prop(pagination, "perPage"))
  THEN DefaultPerPage ELSE pagination.f.perPage.num

Max(a, b) == IF a >= b THEN a ELSE b
Min(a, b) == IF a <= b THEN a ELSE b

\* array.slice(start, end) for start >= 0.
ArraySlice(array, start, end) == SubSeq(array, start + 1, Min(end, Len(array)))

\* The slice that takes the page number as a 0-based index.
PageSliceZeroBased(sorted, pagination) ==
  ArraySlice(sorted, PageOf(pagination) * PerPageOf(pagination),
             PageOf(pagination) * PerPageOf(pagination) + PerPageOf(pagination))

PageSlice(sorted, pagination) ==
  LET startIndex == Max(PageOf(pagination) - 1, 0) * PerPageOf(pagination)
  IN ArraySlice(sorted, startIndex, startIndex + PerPageOf(pagination))

\* The total that counts the listed records instead of the filtered ones.
TotalOfListed(records, sorted) == Len(records)

TotalOf(records, sorted) == Len(sorted)

\* The value paginateAndSort returns when the sort left `sorted`.
paginateAndSort(records, sorted, params) ==
  [data |-> PageSlice(sorted, params.pagination), total |-> TotalOf(records, sorted)]

RECURSIVE MapAll(_, _)
\* list.map((item) => mapSummaryToRaRecord(resource, item)): the mapped records,
\* or the rejection of the first item that throws.
MapAll(resource, list) ==
  IF list = <<>> THEN Fulfilled(<<>>)
  ELSE LET first == mapSummaryToRaRecord(resource, Head(list))
           rest == MapAll(resource, Tail(list))
       IN IF first.state = "rejected" THEN first
          ELSE IF rest.state = "rejected" THEN rest
          ELSE Fulfilled(<<first.result>> \o rest.result)

\* The filter getManyReference hands on without the reference entry.
mergedFilterCallerOnly(params) ==
  Obj(IF IsNullish(params.filter) THEN EmptyObj ELSE params.filter.f)

\* { ...(params.filter ?? {}), [params.target]: params.id }
mergedFilter(params) ==
  Obj(Spread(IF IsNullish(params.filter) THEN EmptyObj ELSE params.filter.f,
             [k \in {params.target} |-> params.id]))

(***************************************************************************)
(* Inputs of the list operations.                                          *)
(***************************************************************************)
\* The longest list adapter.list answers with.
MaxRecords == 3

Summary(id, name, draftVersion, publishedVersion) ==
  Obj([iconSetId |-> id, name |-> name, draftVersion |-> draftVersion,
       publishedVersion |-> publishedVersion])

Summaries ==
  {Summary(Str("icons-beta"), Str("Beta"), Num(1), Null),
   Summary(Str("icons-alpha"), Str("Alpha"), Num(2), Num(1)),
   Summary(Str("icons-gamma"), Str("Gamma"), Num(10), Null),
   Summary(Str("icons-alpha-2"), Str("alpha"), Num(2), Num(2)),
   Summary(Str("icons-odd"), Str("Odd"), Str("1b"), Num(1))}

\* A summary without its identifier.
BadSummary == Obj([name |-> Str("Orphan")])

DistinctSeqs(S, n) == {s \in [1..n -> S] : \A i, j \in 1..n : s[i] = s[j] => i = j}

Listings ==
  UNION {DistinctSeqs(Summaries, n) : n \in 0..MaxRecords}

Filters ==
  {Undef,
   Obj([q |-> Str("a")]),
   Obj([q |-> Str("Alpha")]),
   Obj([q |-> Str(" ")]),
   Obj([q |-> Num(2)]),
   Obj([name |-> Str("Alpha")]),
   Obj([draftVersion |-> Num(2), publishedVersion |-> Null]),
   Obj([q |-> Str("a"), draftVersion |-> Num(2)])}

Sorts ==
  {Undef} \cup
  {Obj([field |-> Str(f), order |-> Str(o)]) : f \in {"name", "draftVersion"},
                                               o \in {"ASC", "DESC"}}

Paginations ==
  {Undef} \cup
  {Obj([page |-> Num(pp[1]), perPage |-> Num(pp[2])]) :
     pp \in {<<1, 2>>, <<2, 2>>, <<1, 1>>, <<3, 1>>, <<0, 2>>}}

\* target and id of a getManyReference call.
References ==
  {[target |-> "name", id |-> Str("Alpha")],
   [target |-> "draftVersion", id |-> Num(2)],
   [target |-> "name", id |-> Str("")],
   [target |-> "q", id |-> Str("alpha")]}

\* The params of the calls: every filter with every sort on one page, and
\* every pagination over two filters and two sorts.
ListParams ==
  {[filter |-> f, sort |-> s, pagination |-> Undef] : f \in Filters, s \in Sorts}
  \cup
  {[filter |-> f, sort |-> s, pagination |-> p] :
     f \in {Undef, Obj([q |-> Str("a")])},
     s \in {Undef, Obj([field |-> Str("name"), order |-> Str("ASC")])},
     p \in Paginations}

ListInputs ==
  {[resource |-> "icon-sets", listed |-> Fulfilled(l), params |-> ps] :
     l \in Listings, ps \in ListParams}
  \cup
  {[resource |-> r, listed |-> l,
    params |-> [filter |-> Undef, sort |-> Undef, pagination |-> Undef]] :
     r \in {"icon-sets", "users"},
     l \in {Fulfilled(<<BadSummary>>), Fulfilled(<<>>),
            Rejected(HttpErr("Service unavailable", 503, Undef))}}

InitList ==
  /\ NormIdle
  /\ AdapterIdle
  /\ MapperIdle
  /\ ProviderIdle
  /\ ClientIdle
  /\ ConcurrentIdle
  /\ PanelIdle
  /\ \E in \in ListInputs :
       /\ lsResource = in.resource
       /\ lsListed = in.listed
       /\ lsParams = in.params
  /\ lsOp = ""
  /\ lsRef = NoValue
  /\ lsSorted = NoValue
  /\ lsResult = Pending

\* The body shared by getList and getManyReference once the filter is known.
ListWith(filter) ==
  IF ensureScopedResourceThrows(lsResource)
  THEN /\ lsResult' = Rejected(ensureScopedResourceError(lsResource))
       /\ lsSorted' = NoValue
  ELSE IF lsListed.state = "rejected"
  THEN /\ lsResult' = lsListed
       /\ lsSorted' = NoValue
  ELSE LET all == MapAll(lsResource, lsListed.result)
           mapped == all.result
           params == [lsParams EXCEPT !.filter = filter]
       IN IF all.state = "rejected"
          THEN /\ lsResult' = all
               /\ lsSorted' = NoValue
          ELSE \E sorted \in SortedOutcomes(ArrayFilter(mapped, filter),
                                            lsParams.sort) :
                 /\ lsSorted' = sorted
                 /\ lsResult' = Fulfilled(paginateAndSort(mapped, sorted, params))

GetList ==
  /\ lsResult = Pending
  /\ lsOp' = "getList"
  /\ lsRef' = NoValue
  /\ ListWith(lsParams.filter)
  /\ UNCHANGED <<lsResource, lsListed, lsParams, normVars, adapterVars, mapperVars,
                 providerVars, clientVars, concurrentVars, panelVars>>

GetManyReference ==
  /\ lsResult = Pending
  /\ \E ref \in References :
       /\ lsOp' = "getManyReference"
       /\ lsRef' = ref
       /\ ListWith(mergedFilter([filter |-> lsParams.filter,
                                 target |-> ref.target, id |-> ref.id]))
  /\ UNCHANGED <<lsResource, lsListed, lsParams, normVars, adapterVars, mapperVars,
                 providerVars, clientVars, concurrentVars, panelVars>>

NextList == GetList \/ GetManyReference

SpecList == InitList /\ [][NextList]_vars

(***************************************************************************)
(* dataProvider.ts: field validators.  A validator gives Fulfilled(value)  *)
(* when it returns and Rejected(error) when it throws.                     *)
(***************************************************************************)
FieldError(message, field, reason) ==
  HttpErr(message, 400, [errors |-> <<[key |-> field, value |-> reason]>>])

ensureObject(value, field) ==
  IF ensureObjectThrows(value) THEN Rejected(ensureObjectError(field)) ELSE Fulfilled(value)

ensureStringError(field) ==
  FieldError("Field '" \o field \o "' must be a non-empty string", field,
             "Must be a non-empty string")

\* The test without the trim: any string passes.
ensureStringAnyString(value, field) ==
  IF typeof(value) # "string" THEN Rejected(ensureStringError(field)) ELSE Fulfilled(value)

ensureString(value, field) ==
  IF typeof(value) # "string" \/ Len(trim(value.s)) = 0
  THEN Rejected(ensureStringError(field))
  ELSE Fulfilled(value)

optionalString(value) ==
  IF IsNullish(value) THEN Undef
  ELSE IF typeof(value) # "string" THEN Undef
  ELSE IF Len(trim(value.s)) > 0 THEN Str(trim(value.s)) ELSE Undef

\* left ?? right
NullishCoalesce(left, right) == IF IsNullish(left) THEN right ELSE left

DigitValue(c) == (CHOOSE i \in 1..Len(Digits) : Digits[i] = c) - 1

RECURSIVE IsDigits(_)
IsDigits(s) ==
  s = "" \/ ((\E i \in 1..Len(Digits) : Digits[i] = Head(s)) /\ IsDigits(Tail(s)))

RECURSIVE ParseDigits(_, _)
ParseDigits(s, acc) ==
  IF s = "" THEN acc ELSE ParseDigits(Tail(s), acc * 10 + DigitValue(Head(s)))

\* Number(value) for a string that is blank, a decimal natural or not numeric.
NumberOfString(s) ==
  IF trim(s) = "" THEN Num(0)
  ELSE IF IsDigits(trim(s)) THEN Num(ParseDigits(trim(s), 0))
  ELSE NaN

\* The check without the conversion: the value is returned as it was given.
ensurePositiveIntegerAsGiven(value, field) ==
  LET numericValue == IF typeof(value) = "number" THEN value
                      ELSE IF typeof(value) = "string" THEN NumberOfString(value.s)
                      ELSE NaN
  IN IF ~NumberIsInteger(numericValue) \/ LessThanOne(numericValue)
     THEN Rejected(FieldError("Field '" \o field \o "' must be an integer >= 1", field,
                              "Must be an integer greater than or equal to 1"))
     ELSE Fulfilled(value)

ensurePositiveInteger(value, field) ==
  LET numericValue == IF typeof(value) = "number" THEN value
                      ELSE IF typeof(value) = "string" THEN NumberOfString(value.s)
                      ELSE NaN
  IN IF ~NumberIsInteger(numericValue) \/ LessThanOne(numericValue)
     THEN Rejected(FieldError("Field '" \o field \o "' must be an integer >= 1", field,
                              "Must be an integer greater than or equal to 1"))
     ELSE Fulfilled(numericValue)

ensureArray(value, field) ==
  IF ~IsArray(value)
  THEN Rejected(FieldError("Field '" \o field \o "' must be an array", field,
                           "Must be an array"))
  ELSE Fulfilled(value)

\* An object literal { key: expression, ... }: the expressions are evaluated in
\* order, the first that throws ends the evaluation.
ObjectLiteral(entries) ==
  LET failed == {i \in DOMAIN entries : entries[i][2].state = "rejected"}
  IN IF failed # {}
     THEN entries[CHOOSE i \in failed : \A j \in failed : i <= j][2]
     ELSE Fulfilled(Obj([k \in {entries[i][1] : i \in DOMAIN entries} |->
                           entries[CHOOSE i \in DOMAIN entries : entries[i][1] = k][2].result]))

(***************************************************************************)
(* dataProvider.ts: payload builders                                       *)
(***************************************************************************)
buildIconSetCreatePayload(data) ==
  ObjectLiteral(<< <<"iconSetId", ensureString(Prop(data, "iconSetId"), "iconSetId")>>,
                   <<"name", ensureString(Prop(data, "name"), "name")>>,
                   <<"entries", ensureObject(Prop(data, "entries"), "entries")>> >>)

\* The update payload that carries the identifier as well.
buildIconSetUpdatePayloadWithId(data) == buildIconSetCreatePayload(data)

buildIconSetUpdatePayload(data) ==
  ObjectLiteral(<< <<"name", ensureString(Prop(data, "name"), "name")>>,
                   <<"entries", ensureObject(Prop(data, "entries"), "entries")>> >>)

buildLayoutSetCreatePayload(data) ==
  ObjectLiteral(<< <<"layoutSetId", ensureString(Prop(data, "layoutSetId"), "layoutSetId")>>,
                   <<"name", ensureString(Prop(data, "name"), "name")>>,
                   <<"elkSettings", ensureObject(Prop(data, "elkSettings"), "elkSettings")>> >>)

buildLayoutSetUpdatePayload(data) ==
  ObjectLiteral(<< <<"name", ensureString(Prop(data, "name"), "name")>>,
                   <<"elkSettings", ensureObject(Prop(data, "elkSettings"), "elkSettings")>> >>)

buildLinkSetCreatePayload(data) ==
  ObjectLiteral(<< <<"linkSetId", ensureString(Prop(data, "linkSetId"), "linkSetId")>>,
                   <<"name", ensureString(Prop(data, "name"), "name")>>,
                   <<"entries", ensureObject(Prop(data, "entries"), "entries")>> >>)

buildLinkSetUpdatePayload(data) ==
  ObjectLiteral(<< <<"name", ensureString(Prop(data, "name"), "name")>>,
                   <<"entries", ensureObject(Prop(data, "entries"), "entries")>> >>)

\* The body of a reference: its id, its version, its checksum or null.
RefLiteral(value, idKey, versionKey, fieldName) ==
  ObjectLiteral(
    << <<idKey, ensureString(Prop(value, idKey), fieldName \o "." \o idKey)>>,
       <<versionKey,
         ensurePositiveInteger(Prop(value, versionKey), fieldName \o "." \o versionKey)>>,
       <<"checksum", Fulfilled(NullishCoalesce(optionalString(Prop(value, "checksum")), Null))>> >>)

buildLayoutSetRef(data, fieldName) ==
  IF ensureObject(data, fieldName).state = "rejected" THEN ensureObject(data, fieldName)
  ELSE RefLiteral(data, "layoutSetId", "layoutSetVersion", fieldName)

buildLinkSetRef(data, fieldName) ==
  IF ensureObject(data, fieldName).state = "rejected" THEN ensureObject(data, fieldName)
  ELSE RefLiteral(data, "linkSetId", "linkSetVersion", fieldName)

buildIconSetRefs(data, fieldName) ==
  LET entryName(index) == fieldName \o "[" \o NatToString(index) \o "]"
      refs == [i \in 1..Len(data.a) |->
                 IF ensureObject(data.a[i], entryName(i - 1)).state = "rejected"
                 THEN ensureObject(data.a[i], entryName(i - 1))
                 ELSE RefLiteral(data.a[i], "iconSetId", "iconSetVersion", entryName(i - 1))]
      failed == {i \in DOMAIN refs : refs[i].state = "rejected"}
  IN IF ensureArray(data, fieldName).state = "rejected" THEN ensureArray(data, fieldName)
     ELSE IF failed # {} THEN refs[CHOOSE i \in failed : \A j \in failed : i <= j]
     ELSE IF Len(refs) = 0
       THEN Rejected(FieldError("iconSetRefs must include at least one item", "iconSetRefs",
                                "At least one icon set reference is required"))
     ELSE Fulfilled(Arr([i \in DOMAIN refs |-> refs[i].result]))

IconConflictPolicies == {Str("reject"), Str("first-wins"), Str("last-wins")}

\* The iconConflictPolicy of a graph-type payload.
iconConflictPolicyOf(data) ==
  LET conflictPolicy ==
        NullishCoalesce(optionalString(Prop(data, "iconConflictPolicy")), Str("reject"))
  IN IF conflictPolicy \in IconConflictPolicies THEN conflictPolicy ELSE Str("reject")

buildGraphTypeCreatePayload(data) ==
  ObjectLiteral(
    << <<"graphTypeId", ensureString(Prop(data, "graphTypeId"), "graphTypeId")>>,
       <<"name", ensureString(Prop(data, "name"), "name")>>,
       <<"layoutSetRef", buildLayoutSetRef(Prop(data, "layoutSetRef"), "layoutSetRef")>>,
       <<"iconSetRefs", buildIconSetRefs(Prop(data, "iconSetRefs"), "iconSetRefs")>>,
       <<"linkSetRef", buildLinkSetRef(Prop(data, "linkSetRef"), "linkSetRef")>>,
       <<"iconConflictPolicy", Fulfilled(iconConflictPolicyOf(data))>> >>)

buildGraphTypeUpdatePayload(data) ==
  ObjectLiteral(
    << <<"name", ensureString(Prop(data, "name"), "name")>>,
       <<"layoutSetRef", buildLayoutSetRef(Prop(data, "layoutSetRef"), "layoutSetRef")>>,
       <<"iconSetRefs", buildIconSetRefs(Prop(data, "iconSetRefs"), "iconSetRefs")>>,
       <<"linkSetRef", buildLinkSetRef(Prop(data, "linkSetRef"), "linkSetRef")>>,
       <<"iconConflictPolicy", Fulfilled(iconConflictPolicyOf(data))>> >>)

\* data.variables === undefined ? undefined : ensureObject(data.variables, "variables")
themeVariables(data) ==
  IF Prop(data, "variables") = Undef THEN Fulfilled(Undef)
  ELSE ensureObject(Prop(data, "variables"), "variables")

buildThemeCreatePayload(data) ==
  ObjectLiteral(<< <<"themeId", ensureString(Prop(data, "themeId"), "themeId")>>,
                   <<"name", ensureString(Prop(data, "name"), "name")>>,
                   <<"cssBody", ensureString(Prop(data, "cssBody"), "cssBody")>>,
                   <<"variables", themeVariables(data)>> >>)

buildThemeUpdatePayload(data) ==
  ObjectLiteral(<< <<"name", ensureString(Prop(data, "name"), "name")>>,
                   <<"cssBody", ensureString(Prop(data, "cssBody"), "cssBody")>>,
                   <<"variables", themeVariables(data)>> >>)

buildCreatePayload(resource, data) ==
  CASE resource = "icon-sets" -> buildIconSetCreatePayload(data)
    [] resource = "layout-sets" -> buildLayoutSetCreatePayload(data)
    [] resource = "link-sets" -> buildLinkSetCreatePayload(data)
    [] resource = "graph-types" -> buildGraphTypeCreatePayload(data)
    [] resource = "themes" -> buildThemeCreatePayload(data)

buildUpdatePayload(resource, data) ==
  CASE resource = "icon-sets" -> buildIconSetUpdatePayload(data)
    [] resource = "layout-sets" -> buildLayoutSetUpdatePayload(data)
    [] resource = "link-sets" -> buildLinkSetUpdatePayload(data)
    [] resource = "graph-types" -> buildGraphTypeUpdatePayload(data)
    [] resource = "themes" -> buildThemeUpdatePayload(data)

(***************************************************************************)
(* dataProvider.ts: getOne, getMany, create, update, updateMany, delete    *)
(* and deleteMany                                                          *)
(***************************************************************************)
\* What an operation does before the adapter is called: the payload of create,
\* update and updateMany, nothing for getOne and getMany, or the error thrown.
PreparePayload(op, resource, params) ==
  IF ensureScopedResourceThrows(resource) THEN Rejected(ensureScopedResourceError(resource))
  ELSE IF op \in {"getOne", "getMany"} THEN Fulfilled(NoValue)
  ELSE IF ensureObject(params.data, "data").state = "rejected"
    THEN ensureObject(params.data, "data")
  ELSE IF op = "create" THEN buildCreatePayload(resource, params.data)
  ELSE buildUpdatePayload(resource, params.data)

\* One call of an adapter method as the adapter sees it.
AdapterCall(method, resource, id, payload) ==
  [method |-> method, resource |-> resource, id |-> id, payload |-> payload]

\* The adapter calls a prepared operation makes, in order.
AdapterCallsOf(op, resource, params, payload) ==
  CASE op = "create" -> <<AdapterCall("create", resource, NoValue, payload)>>
    [] op = "update" -> <<AdapterCall("update", resource, StringOf(params.id), payload)>>
    [] op = "updateMany" ->
         [i \in 1..Len(params.ids) |->
            AdapterCall("update", resource, StringOf(params.ids[i]), payload)]
    [] op = "getOne" -> <<AdapterCall("get", resource, StringOf(params.id), NoValue)>>
    [] op = "getMany" ->
         [i \in 1..Len(params.ids) |->
            AdapterCall("get", resource, StringOf(params.ids[i]), NoValue)]

\* updates.map((record) => extractRecordId(resource, ensureObject(record, "record")))
ExtractIds(resource, records) ==
  LET ids == [i \in DOMAIN records |->
                IF ensureObject(records[i], "record").state = "rejected"
                THEN ensureObject(records[i], "record")
                ELSE IF extractRecordIdThrows(resource, records[i])
                THEN Rejected(extractRecordIdError(resource))
                ELSE Fulfilled(extractRecordId(resource, records[i]))]
      failed == {i \in DOMAIN ids : ids[i].state = "rejected"}
  IN IF failed # {} THEN ids[CHOOSE i \in failed : \A j \in failed : i <= j]
     ELSE Fulfilled([data |-> [i \in DOMAIN ids |-> ids[i].result]])

\* getRecord: the flattened record of what adapter.get gave, or its rejection.
getRecord(resource, got) ==
  IF got.state = "rejected" THEN got ELSE mapRecordToRaRecord(resource, got.result)

\* The promise an operation awaits for one adapter call: getRecord(...) in
\* getOne and getMany, the adapter's own promise in the others.
AwaitedOutcome(op, resource, outcome) ==
  IF op \in {"getOne", "getMany"} THEN getRecord(resource, outcome) ELSE outcome

\* The value returned once every awaited promise is fulfilled with values[i].
ProviderReturn(op, resource, values) ==
  CASE op = "getOne" -> Fulfilled([data |-> values[1]])
    [] op = "getMany" -> Fulfilled([data |-> values])
    [] op = "updateMany" -> ExtractIds(resource, values)
    [] op \in {"create", "update"} ->
         LET mapped == mapRecordToRaRecord(resource, values[1])
         IN IF mapped.state = "rejected" THEN mapped
            ELSE Fulfilled([data |-> mapped.result])

\* The returned promise under the first completion only: it settles with the
\* call that settles first, whatever the others do.
ProviderSettlesFirstOnly(op, resource, result, settled, i) ==
  IF result # Pending THEN result
  ELSE IF AwaitedOutcome(op, resource, settled[i]).state = "rejected"
  THEN AwaitedOutcome(op, resource, settled[i])
  ELSE ProviderReturn(op, resource,
                      <<AwaitedOutcome(op, resource, settled[i]).result>>)

\* The returned promise after call i has settled: await and Promise.all reject
\* with the first rejection in time, and fulfil when every call has fulfilled.
ProviderSettles(op, resource, result, settled, i) ==
  IF result # Pending THEN result
  ELSE IF AwaitedOutcome(op, resource, settled[i]).state = "rejected"
  THEN AwaitedOutcome(op, resource, settled[i])
  ELSE IF \A j \in DOMAIN settled : settled[j] # Pending
  THEN ProviderReturn(op, resource,
                      [j \in DOMAIN settled |-> AwaitedOutcome(op, resource, settled[j]).result])
  ELSE Pending

DeleteNotSupportedMessage == "Delete is not supported for these resources by the current API."

\* The error delete and deleteMany throw.
DeleteNotSupported ==
  HttpErr(DeleteNotSupportedMessage, 405,
          [errors |-> <<[key |-> "root.serverError", value |-> DeleteNotSupportedMessage]>>])

\* delete that hands the request to adapter.delete, whether the adapter has it or not.
DeleteCallsAttempted(adapter, resource, params) ==
  <<AdapterCall("delete", resource, StringOf(params.id), NoValue)>>

\* The adapter calls of delete and deleteMany: none, the bodies only throw.
DeleteCalls(adapter, resource, params) == <<>>

(***************************************************************************)
(* Inputs of the data provider operations.                                 *)
(***************************************************************************)
ValidRef(idKey, versionKey) ==
  Obj([k \in {idKey, versionKey, "checksum"} |->
         CASE k = idKey -> Str("ref-1")
           [] k = versionKey -> Num(1)
           [] k = "checksum" -> Str("abc")])

ValidData(resource) ==
  CASE resource = "icon-sets" ->
         [iconSetId |-> Str("icons-alpha"), name |-> Str("Alpha"),
          entries |-> Obj([user |-> Str("person")]), publishedVersion |-> Num(1)]
    [] resource = "layout-sets" ->
         [layoutSetId |-> Str("layout-1"), name |-> Str("Alpha"),
          elkSettings |-> Obj(EmptyObj), publishedVersion |-> Num(1)]
    [] resource = "link-sets" ->
         [linkSetId |-> Str("link-1"), name |-> Str("Alpha"),
          entries |-> Obj(EmptyObj), publishedVersion |-> Num(1)]
    [] resource = "graph-types" ->
         [graphTypeId |-> Str("graph-1"), name |-> Str("Alpha"),
          layoutSetRef |-> ValidRef("layoutSetId", "layoutSetVersion"),
          iconSetRefs |-> Arr(<<ValidRef("iconSetId", "iconSetVersion")>>),
          linkSetRef |-> ValidRef("linkSetId", "linkSetVersion"),
          iconConflictPolicy |-> Str("last-wins")]
    [] resource = "themes" ->
         [themeId |-> Str("theme-1"), name |-> Str("Alpha"), cssBody |-> Str("a {}"),
          variables |-> Obj(EmptyObj)]
    [] OTHER -> [name |-> Str("Alpha")]

StringFieldValues == {Absent, Null, Num(5), Str(""), Str("  "), Str(" padded ")}

ObjectFieldValues == {Absent, Undef, Null, Str("x"), Arr(<<>>), Obj(EmptyObj)}

RefValues(idKey, versionKey) ==
  {Absent, Null, Str("x"), Arr(<<>>)}
  \cup {Obj([ValidRef(idKey, versionKey).f EXCEPT ![idKey] = v]) : v \in {Str(" "), Num(1)}}
  \cup {Obj([ValidRef(idKey, versionKey).f EXCEPT ![versionKey] = v]) :
          v \in {Str("2"), Str(""), Str("x"), Num(0), Num(-1), Frac(3, 2), Bool(TRUE)}}
  \cup {ObjOf([ValidRef(idKey, versionKey).f EXCEPT ![versionKey] = Absent])}
  \cup {Obj([ValidRef(idKey, versionKey).f EXCEPT !["checksum"] = v]) :
          v \in {Str(" abc "), Str(" "), Num(1), Null}}

RefArrayValues ==
  {Absent, Null, Obj(EmptyObj), Arr(<<>>), Arr(<<Str("x")>>),
   Arr(<<Obj([iconSetId |-> Str("icons-1"), iconSetVersion |-> Num(0)])>>),
   Arr(<<ValidRef("iconSetId", "iconSetVersion"), Obj([iconSetId |-> Str("icons-2")])>>),
   Arr(<<ValidRef("iconSetId", "iconSetVersion"),
         Obj([iconSetId |-> Str("icons-2"), iconSetVersion |-> Str("3")])>>)}

PolicyValues ==
  {Absent, Null, Num(1), Str(""), Str("merge"), Str("REJECT"),
   Str("reject"), Str("first-wins"), Str(" first-wins ")}

\* The values tried for one field of the input.
FieldValues(key) ==
  CASE key \in {"iconSetId", "layoutSetId", "linkSetId", "graphTypeId", "themeId",
                "name", "cssBody"} -> StringFieldValues
    [] key \in {"entries", "elkSettings", "variables"} -> ObjectFieldValues
    [] key = "layoutSetRef" -> RefValues("layoutSetId", "layoutSetVersion")
    [] key = "linkSetRef" -> RefValues("linkSetId", "linkSetVersion")
    [] key = "iconSetRefs" -> RefArrayValues
    [] key = "iconConflictPolicy" -> PolicyValues
    [] OTHER -> {Absent}

\* The object with one field replaced, or left out for Absent.
WithField(fields, key, value) == ObjOf([fields EXCEPT ![key] = value])

\* The data of the calls: the valid input of the resource, the same with one
\* field changed, with name and one more field changed, and values that are not
\* objects.
DataInputs(resource) ==
  {Obj(ValidData(resource))}
  \cup UNION {{WithField(ValidData(resource), k, v) : v \in FieldValues(k)} :
                k \in DOMAIN ValidData(resource)}
  \cup UNION {{WithField([ValidData(resource) EXCEPT !.name = Str("")], k, v) :
                  v \in FieldValues(k) \cap {Null, Str("")}} :
                k \in DOMAIN ValidData(resource) \ {"name"}}
  \cup {Undef, Null, Str("x"), Arr(<<>>)}

Identifiers ==
  {[id |-> Str("icons-alpha"), ids |-> <<Str("icons-alpha")>>],
   [id |-> Num(7), ids |-> <<Str("icons-alpha"), Num(7)>>],
   [id |-> Str("icons-beta"), ids |-> <<>>]}

\* The adapters a provider is created with: one with every method of the
\* ScopedApiAdapter interface, one that has no delete.
AdapterVariants == {AdapterOps, AdapterOps \ {"delete"}}

ProviderInputs ==
  UNION {{[adapter |-> AdapterOps, resource |-> r,
           params |-> [data |-> d, id |-> i.id, ids |-> i.ids]] :
            d \in DataInputs(r), i \in Identifiers} : r \in scopedResourceNames}
  \cup UNION {{[adapter |-> AdapterOps \ {"delete"}, resource |-> r,
                params |-> [data |-> Obj(ValidData(r)), id |-> i.id, ids |-> i.ids]] :
                 i \in Identifiers} : r \in scopedResourceNames}
  \cup {[adapter |-> a, resource |-> r,
         params |-> [data |-> Obj(ValidData(r)), id |-> Num(7), ids |-> <<Num(7)>>]] :
          a \in AdapterVariants, r \in {"users", "widgets"}}

\* The record the backend answers a create with.
ResponseRecord(resource) ==
  LET idField == scopedResourceMeta[resource].idField
  IN Obj([k \in {idField, "draft"} |->
            IF k = idField THEN Str("icons-alpha")
            ELSE Obj([name |-> Str("Alpha"), entries |-> Obj([user |-> Str("person")])])])

\* The record the backend answers a get or update of one identifier with.
ResponseRecordOf(call) ==
  IF call.method = "create" THEN ResponseRecord(call.resource)
  ELSE Obj([ResponseRecord(call.resource).f EXCEPT
              ![scopedResourceMeta[call.resource].idField] = Str(call.id)])

\* How one adapter call settles.
AdapterOutcomes(call) ==
  CASE call.method = "delete" ->
         {Fulfilled(Undef), Rejected(HttpErr("Conflict", 409, Undef))}
    [] call.method = "get" ->
         {Fulfilled(ResponseRecordOf(call)),
          Fulfilled(Null),
          Rejected(HttpErr("Not found", 404, Undef)),
          Rejected(HttpErr("Service unavailable", 503, Undef))}
    [] OTHER ->
         {Fulfilled(ResponseRecordOf(call)),
          Fulfilled(Null),
          Rejected(HttpErr("Conflict", 409, Undef))}

InitProvider ==
  /\ NormIdle
  /\ AdapterIdle
  /\ MapperIdle
  /\ ListIdle
  /\ ClientIdle
  /\ ConcurrentIdle
  /\ PanelIdle
  /\ \E in \in ProviderInputs :
       /\ dpAdapter = in.adapter
       /\ dpResource = in.resource
       /\ dpParams = in.params
  /\ dpOp = ""
  /\ dpPc = "idle"
  /\ dpCalls = <<>>
  /\ dpSettled = <<>>
  /\ dpOrder = <<>>
  /\ dpResult = Pending

\* The synchronous part of an operation: validation, payload, adapter calls.
\* With no call to await the operation returns at once.
Start(op) ==
  /\ dpOp' = op
  /\ LET prepared == PreparePayload(op, dpResource, dpParams)
         calls == AdapterCallsOf(op, dpResource, dpParams, prepared.result)
     IN IF prepared.state = "rejected"
        THEN /\ dpCalls' = <<>>
             /\ dpSettled' = <<>>
             /\ dpPc' = "done"
             /\ dpResult' = prepared
        ELSE IF calls = <<>>
        THEN /\ dpCalls' = <<>>
             /\ dpSettled' = <<>>
             /\ dpPc' = "done"
             /\ dpResult' = ProviderReturn(op, dpResource, <<>>)
        ELSE /\ dpCalls' = calls
             /\ dpSettled' = [i \in DOMAIN calls |-> Pending]
             /\ dpPc' = "awaiting"
             /\ dpResult' = Pending
  /\ UNCHANGED <<dpAdapter, dpResource, dpParams, dpOrder,
                 normVars, adapterVars, mapperVars, listVars, clientVars, concurrentVars,
                 panelVars>>

GetOne ==
  /\ dpPc = "idle"
  /\ Start("getOne")

GetMany ==
  /\ dpPc = "idle"
  /\ Start("getMany")

Create ==
  /\ dpPc = "idle"
  /\ Start("create")

Update ==
  /\ dpPc = "idle"
  /\ Start("update")

UpdateMany ==
  /\ dpPc = "idle"
  /\ Start("updateMany")

\* delete and deleteMany: the body throws, whatever the arguments.
Unsupported(op) ==
  /\ dpOp' = op
  /\ LET calls == DeleteCalls(dpAdapter, dpResource, dpParams)
     IN /\ dpCalls' = calls
        /\ dpSettled' = [i \in DOMAIN calls |-> Pending]
  /\ dpPc' = "done"
  /\ dpResult' = Rejected(DeleteNotSupported)
  /\ UNCHANGED <<dpAdapter, dpResource, dpParams, dpOrder,
                 normVars, adapterVars, mapperVars, listVars, clientVars, concurrentVars,
                 panelVars>>

Delete ==
  /\ dpPc = "idle"
  /\ Unsupported("delete")

DeleteMany ==
  /\ dpPc = "idle"
  /\ Unsupported("deleteMany")

\* One adapter call in flight settles; the returned promise follows.
AdapterSettles ==
  /\ dpPc \in {"awaiting", "done"}
  /\ \E i \in DOMAIN dpCalls :
       /\ dpSettled[i] = Pending
       /\ \E outcome \in AdapterOutcomes(dpCalls[i]) :
            LET settled == [dpSettled EXCEPT ![i] = outcome]
                result == ProviderSettles(dpOp, dpResource, dpResult, settled, i)
            IN /\ dpSettled' = settled
               /\ dpOrder' = Append(dpOrder, i)
               /\ dpResult' = result
               /\ dpPc' = IF result = Pending THEN "awaiting" ELSE "done"
  /\ UNCHANGED <<dpAdapter, dpResource, dpParams, dpOp, dpCalls,
                 normVars, adapterVars, mapperVars, listVars, clientVars, concurrentVars,
                 panelVars>>

NextProvider ==
  \/ GetOne \/ GetMany \/ Create \/ Update \/ UpdateMany \/ Delete \/ DeleteMany
  \/ AdapterSettles

SpecProvider == InitProvider /\ [][NextProvider]_vars

(***************************************************************************)
(* config/env.ts and api/client.ts: the API token and the request          *)
(* middleware of the HTTP client.                                          *)
(***************************************************************************)
\* envToken && envToken.trim().length > 0, the same test for the other tokens.
IsNonBlankToken(token) == Truthy(token) /\ Len(trim(token.s)) > 0

getApiToken(envToken, hasWindow, storage) ==
  IF IsNonBlankToken(envToken) THEN envToken
  ELSE IF ~hasWindow THEN Null
  ELSE IF IsNonBlankToken(storage) THEN storage
  ELSE Null

\* setApiToken that leaves the stored token alone when the argument is blank.
setApiTokenKeepsStored(hasWindow, storage, token) ==
  IF ~hasWindow THEN storage
  ELSE IF IsNonBlankToken(token) THEN token
  ELSE storage

\* The item under TOKEN_STORAGE_KEY after setApiToken(token); Null for no item.
setApiToken(hasWindow, storage, token) ==
  IF ~hasWindow THEN storage
  ELSE IF IsNonBlankToken(token) THEN token
  ELSE Null

\* The headers of a request the adapter hands to apiClient: none.
NoHeaders == [name \in {} |-> ""]

HeadersHas(headers, name) == name \in DOMAIN headers

HeadersSet(headers, name, value) ==
  [n \in DOMAIN headers \cup {name} |-> IF n = name THEN value ELSE headers[n]]

\* The middleware that sets Authorization only.
onRequestAuthorizationOnly(request, token) ==
  [request EXCEPT !.headers =
     IF Truthy(token) THEN HeadersSet(request.headers, "Authorization", "Bearer " \o token.s)
     ELSE request.headers]

\* The onRequest middleware, with the token getApiToken() gave it.
onRequest(request, token) ==
  LET authorized ==
        IF Truthy(token)
        THEN HeadersSet(request.headers, "Authorization", "Bearer " \o token.s)
        ELSE request.headers
  IN [request EXCEPT !.headers =
        IF ~HeadersHas(authorized, "Accept")
        THEN HeadersSet(authorized, "Accept", "application/json")
        ELSE authorized]

(***************************************************************************)
(* Inputs of the token functions and of the middleware.                    *)
(***************************************************************************)
MaxRequests == 2

\* import.meta.env.VITE_API_TOKEN
EnvTokens == {Undef, Str(""), Str("  "), Str("env-token")}

\* The arguments given to setApiToken.
TokenArgs == {Null, Str(""), Str("  "), Str("tok-a"), Str(" tok-b ")}

\* Requests of the adapter as they enter the middleware.
ClientRequests ==
  {[request |-> RequestFor(call), headers |-> NoHeaders] :
     call \in {Call("list", "icon-sets", NoQuery), Call("delete", "themes", NoQuery)}}

InitClient ==
  /\ NormIdle
  /\ AdapterIdle
  /\ MapperIdle
  /\ ListIdle
  /\ ProviderIdle
  /\ ConcurrentIdle
  /\ PanelIdle
  /\ clEnvToken \in EnvTokens
  /\ clWindow \in BOOLEAN
  /\ clStorage = Null
  /\ clLastSet = NoValue
  /\ clSent = <<>>

SetApiToken ==
  /\ \E token \in TokenArgs :
       /\ clStorage' = setApiToken(clWindow, clStorage, token)
       /\ clLastSet' = token
  /\ UNCHANGED <<clEnvToken, clWindow, clSent,
                 normVars, adapterVars, mapperVars, listVars, providerVars,
                 concurrentVars, panelVars>>

\* A request goes through the client: the middleware reads the token and sets
\* the headers, then the request is sent.
SendRequest ==
  /\ Len(clSent) < MaxRequests
  /\ \E request \in ClientRequests :
       LET token == getApiToken(clEnvToken, clWindow, clStorage)
       IN clSent' = Append(clSent, [token |-> token, sent |-> onRequest(request, token)])
  /\ UNCHANGED <<clEnvToken, clWindow, clStorage, clLastSet,
                 normVars, adapterVars, mapperVars, listVars, providerVars,
                 concurrentVars, panelVars>>

NextClient == SetApiToken \/ SendRequest

SpecClient == InitClient /\ [][NextClient]_vars

(***************************************************************************)
(* Two operations of the adapter or of the data provider in flight at the  *)
(* same time.  An operation keeps what it has in the locals of its own     *)
(* call; the adapter object and the provider object have no fields.        *)
(***************************************************************************)
Slots == {"first", "second"}

AdapterOperation(call) == [kind |-> "adapter", call |-> call]

ProviderOperation(op, resource, params) ==
  [kind |-> "provider", op |-> op, resource |-> resource, params |-> params]

\* A call that has run up to its first await (or to its end, when it throws or
\* returns before it awaits).
InFlight(operation, calls, result) ==
  [op |-> operation, calls |-> calls, settled |-> [i \in DOMAIN calls |-> Pending],
   order |-> <<>>, result |-> result]

\* An adapter method called: positiveIntegerOrUndefined on the methods that take
\* a version, then the request.
InvokeOperation(call) ==
  IF call.op \in QueryOps /\ positiveIntegerOrUndefinedThrows(call.query.version)
  THEN InFlight(AdapterOperation(call), <<>>, Rejected(VersionError))
  ELSE InFlight(AdapterOperation(call), IssuedRequests(call), Pending)

\* A data provider operation called.
StartOperation(operation) ==
  LET prepared == PreparePayload(operation.op, operation.resource, operation.params)
      calls == AdapterCallsOf(operation.op, operation.resource, operation.params,
                              prepared.result)
  IN IF operation.op \in {"delete", "deleteMany"}
     THEN InFlight(operation, <<>>, Rejected(DeleteNotSupported))
     ELSE IF prepared.state = "rejected" THEN InFlight(operation, <<>>, prepared)
     ELSE IF calls = <<>>
     THEN InFlight(operation, <<>>, ProviderReturn(operation.op, operation.resource, <<>>))
     ELSE InFlight(operation, calls, Pending)

\* The ways call i of an operation in flight can settle.
ResponsesOf(slot, i) ==
  IF slot.op.kind = "adapter"
  THEN {Fulfilled(result) : result \in ApiResults(slot.op.call)}
         \cup {Rejected(reason) : reason \in NetworkErrors}
  ELSE AdapterOutcomes(slot.calls[i])

\* The result of an operation once its call i has settled, were a rejection of
\* the other operation to reject this one too.
ResumeFailingTogether(slots, s, settled, i) ==
  LET others == {o \in DOMAIN slots \ {s} :
                   /\ slots[o] # NoValue
                   /\ slots[o].result # Pending
                   /\ slots[o].result.state = "rejected"}
  IN IF others # {} THEN slots[CHOOSE o \in others : TRUE].result
     ELSE IF slots[s].op.kind = "adapter" THEN MethodOutcome(slots[s].op.call, settled[i])
     ELSE ProviderSettles(slots[s].op.op, slots[s].op.resource, slots[s].result, settled, i)

\* The result of the operation in slot s once its call i has settled: the
\* continuation runs on the operation's own call, requests and responses.
Resume(slots, s, settled, i) ==
  IF slots[s].op.kind = "adapter" THEN MethodOutcome(slots[s].op.call, settled[i])
  ELSE ProviderSettles(slots[s].op.op, slots[s].op.resource, slots[s].result, settled, i)

(***************************************************************************)
(* Inputs of the concurrent operations.                                    *)
(***************************************************************************)
ConcurrentOperations ==
  {AdapterOperation(call) :
     call \in {Call("get", "icon-sets", NoQuery),
               Call("getBundle", "themes", [stage |-> Undef, version |-> Num(0)]),
               Call("delete", "link-sets", NoQuery)}}
  \cup {ProviderOperation("getOne", "icon-sets",
                          [data |-> Undef, id |-> Str("icons-alpha"), ids |-> <<>>]),
        ProviderOperation("getMany", "icon-sets",
                          [data |-> Undef, id |-> Num(7),
                           ids |-> <<Str("icons-alpha"), Num(7)>>]),
        ProviderOperation("update", "themes",
                          [data |-> Obj(ValidData("themes")), id |-> Str("theme-1"),
                           ids |-> <<>>]),
        ProviderOperation("create", "widgets",
                          [data |-> Obj(ValidData("widgets")), id |-> Num(7), ids |-> <<>>])}

InitConcurrent ==
  /\ NormIdle
  /\ AdapterIdle
  /\ MapperIdle
  /\ ListIdle
  /\ ProviderIdle
  /\ ClientIdle
  /\ PanelIdle
  /\ ccSlots = [s \in Slots |-> NoValue]
  /\ ccLog = <<>>

\* An operation is called while the other slot is in any state.
OperationCalled(s) ==
  /\ ccSlots[s] = NoValue
  /\ \E operation \in ConcurrentOperations :
       ccSlots' = [ccSlots EXCEPT ![s] =
                     IF operation.kind = "adapter" THEN InvokeOperation(operation.call)
                     ELSE StartOperation(operation)]
  /\ ccLog' = Append(ccLog, <<"called", s>>)
  /\ UNCHANGED <<normVars, adapterVars, mapperVars, listVars, providerVars, clientVars,
                 panelVars>>

\* One call in flight of the operation in slot s settles and the operation resumes.
ResponseArrives(s) ==
  /\ ccSlots[s] # NoValue
  /\ \E i \in DOMAIN ccSlots[s].calls :
       /\ ccSlots[s].settled[i] = Pending
       /\ \E response \in ResponsesOf(ccSlots[s], i) :
            LET settled == [ccSlots[s].settled EXCEPT ![i] = response]
            IN ccSlots' = [ccSlots EXCEPT ![s] =
                             [@ EXCEPT !.settled = settled,
                                       !.order = Append(@, i),
                                       !.result = Resume(ccSlots, s, settled, i)]]
  /\ ccLog' = Append(ccLog, <<"settled", s>>)
  /\ UNCHANGED <<normVars, adapterVars, mapperVars, listVars, providerVars, clientVars,
                 panelVars>>

NextConcurrent ==
  \/ \E s \in Slots : OperationCalled(s)
  \/ \E s \in Slots : ResponseArrives(s)

SpecConcurrent == InitConcurrent /\ [][NextConcurrent]_vars

(***************************************************************************)
(* Shapes of backend payloads, stated on the value itself.                 *)
(***************************************************************************)
HasStructuredShape(v) ==
  /\ v.t \in {"object", "Error"}
  /\ "error" \in DOMAIN v.f
  /\ v.f.error.t = "object"
  /\ "code" \in DOMAIN v.f.error.f /\ v.f.error.f.code.t = "string"
  /\ "message" \in DOMAIN v.f.error.f /\ v.f.error.f.message.t = "string"

IsWellFormedIssue(issue) ==
  /\ issue.t = "object"
  /\ {"loc", "msg", "type"} \subseteq DOMAIN issue.f
  /\ issue.f.loc.t = "array" /\ issue.f.msg.t = "string" /\ issue.f.type.t = "string"

HasValidationShape(v) ==
  /\ v.t \in {"object", "Error"}
  /\ "detail" \in DOMAIN v.f
  /\ v.f.detail.t = "array"
  /\ \A i \in 1..Len(v.f.detail.a) : IsWellFormedIssue(v.f.detail.a[i])

\* The payload is handled as a validation error: it has that shape and not the other.
IsValidationInput(v) == HasValidationShape(v) /\ ~HasStructuredShape(v)

IssuesOf(v) == v.f.detail.a

RootEntry(message) == <<[key |-> "root.serverError", value |-> message]>>

NormDone == nzResult # Pending

\* C1: a payload { error: { code, message, details } } normalized with status S
\* gives message = error.message, status = S, body.errors = exactly
\* { "root.serverError": error.message }, and code and details carried unchanged.
C1_StructuredError ==
  (NormDone /\ nzError.t = "object" /\ HasStructuredShape(nzError) /\ nzStatus # <<>>) =>
    /\ nzResult.t = "HttpError"
    /\ nzResult.message = nzError.f.error.f.message.s
    /\ nzResult.status = nzStatus[1]
    /\ DOMAIN nzResult.body = {"code", "details", "errors"}
    /\ nzResult.body.errors = RootEntry(nzError.f.error.f.message.s)
    /\ nzResult.body.code = nzError.f.error.f.code
    /\ nzResult.body.details =
         (IF "details" \in DOMAIN nzError.f.error.f THEN nzError.f.error.f.details ELSE Undef)

C1_Witness ==
  /\ NormDone
  /\ nzError = Obj([error |-> Obj([code |-> Str("conflict"),
                                   message |-> Str("Resource already exists"),
                                   details |-> Null])])
  /\ nzStatus = <<409>>
  /\ nzResult.status = 409

\* The field path of C2: the segments joined with '.', a leading 'body' dropped,
\* later segments kept; the empty path is 'root.serverError'.
C2_FieldPath(loc) ==
  LET segments == [i \in 1..Len(loc) |-> StringOf(loc[i])]
      kept == IF Len(segments) > 0 /\ segments[1] = "body" THEN Tail(segments) ELSE segments
  IN IF Len(kept) = 0 THEN "root.serverError" ELSE Join(kept, ".")

\* C2: on a validation payload the keys of fieldErrors are the issues' loc
\* segments joined with '.' after dropping a leading 'body' only, 'root.serverError'
\* for an empty path, and each key maps to the msg of an issue with that path.
C2_FieldPathsDropLeadingBody ==
  (NormDone /\ IsValidationInput(nzError)) =>
    /\ nzResult.t = "HttpError"
    /\ OrdKeys(nzResult.body.errors) =
         {C2_FieldPath(IssuesOf(nzError)[i].f.loc.a) : i \in 1..Len(IssuesOf(nzError))}
    /\ \A k \in OrdKeys(nzResult.body.errors) :
         \E i \in 1..Len(IssuesOf(nzError)) :
           /\ C2_FieldPath(IssuesOf(nzError)[i].f.loc.a) = k
           /\ OrdGet(nzResult.body.errors, k) = IssuesOf(nzError)[i].f.msg.s

\* C3: on a validation payload with a non-empty issue list the message is the msg
\* of the first issue in list order; with an empty list the message is the generic
\* fallback and fieldErrors is empty.
C3_MessageIsFirstIssue ==
  (NormDone /\ IsValidationInput(nzError)) =>
    /\ nzResult.t = "HttpError"
    /\ Len(IssuesOf(nzError)) > 0 => nzResult.message = IssuesOf(nzError)[1].f.msg.s
    /\ Len(IssuesOf(nzError)) = 0 =>
         /\ nzResult.message = "Validation failed for this request."
         /\ nzResult.body.errors = <<>>

\* C4: the rules apply in fixed precedence, first match wins: a normalized error is
\* returned unchanged; else the structured shape; else the validation shape; else a
\* generic Error; else 'Unexpected API error'.  A value with both a well-formed
\* error object and a well-formed detail array is a structured error.
C4_Precedence ==
  NormDone =>
    IF nzError.t = "HttpError" THEN nzResult = nzError
    ELSE IF HasStructuredShape(nzError)
      THEN /\ nzResult.t = "HttpError"
           /\ "code" \in DOMAIN nzResult.body
           /\ nzResult.message = nzError.f.error.f.message.s
           /\ nzResult.body.errors = RootEntry(nzError.f.error.f.message.s)
    ELSE IF HasValidationShape(nzError)
      THEN /\ nzResult.t = "HttpError"
           /\ DOMAIN nzResult.body = {"errors"}
           /\ Len(nzResult.body.errors) <= Len(IssuesOf(nzError))
           /\ \/ /\ IssuesOf(nzError) = <<>>
                 /\ nzResult.message = "Validation failed for this request."
              \/ \E i \in 1..Len(IssuesOf(nzError)) :
                   nzResult.message = IssuesOf(nzError)[i].f.msg.s
    ELSE IF nzError.t = "Error"
      THEN /\ nzResult.t = "HttpError"
           /\ nzResult.message = nzError.message
           /\ nzResult.body = [errors |-> RootEntry(nzError.message)]
    ELSE /\ nzResult.t = "HttpError"
         /\ nzResult.message = "Unexpected API error"
         /\ nzResult.body = [errors |-> RootEntry("Unexpected API error")]

C4_Witness ==
  /\ NormDone
  /\ nzError.t = "object"
  /\ HasStructuredShape(nzError)
  /\ HasValidationShape(nzError)
  /\ Len(IssuesOf(nzError)) > 0
  /\ "code" \in DOMAIN nzResult.body

\* C5: normalizeApiError never throws: for every input and status it returns a
\* normalized error, and when the input is not already a normalized error the
\* result's status is the status argument, 500 when the argument is omitted.
C5_Total ==
  NormDone =>
    /\ nzResult.t = "HttpError"
    /\ nzError.t # "HttpError" =>
         nzResult.status = (IF nzStatus = <<>> THEN 500 ELSE nzStatus[1])

C5_Witness ==
  /\ NormDone
  /\ nzError = Null
  /\ nzStatus = <<>>
  /\ nzResult.t = "HttpError"
  /\ nzResult.status = 500

(***************************************************************************)
(* Claims about the adapter.                                               *)
(***************************************************************************)
Responded == adPc = "settled" /\ adResponse # NoValue /\ adResponse.state = "fulfilled"

IsSuccessStatus(status) == status >= 200 /\ status <= 299

\* C6: for every adapter operation, delete included, a response that is non-2xx or
\* whose envelope carries an error field (whatever its value) makes the call reject
\* with a normalized error whose status is the response's status; it never resolves.
C6_FailureRejectsWithStatus ==
  (/\ Responded
   /\ \/ ~IsSuccessStatus(adResponse.result.status)
      \/ "error" \in DOMAIN adResponse.result) =>
    /\ adOutcome.state = "rejected"
    /\ adOutcome.reason.t = "HttpError"
    /\ adOutcome.reason.status = adResponse.result.status

\* C7: a 2xx response with an empty body (data undefined, no error) makes every
\* data-returning operation reject with an error and makes the resource-level
\* delete resolve with no value.
C7_EmptyBody ==
  (/\ Responded
   /\ IsSuccessStatus(adResponse.result.status)
   /\ "error" \notin DOMAIN adResponse.result
   /\ adResponse.result.data = Undef) =>
    IF adCall.op = "delete"
    THEN adOutcome = Fulfilled(Undef)
    ELSE /\ adOutcome.state = "rejected"
         /\ adOutcome.reason.t = "HttpError"

C7_Witness ==
  /\ Responded
  /\ adCall.op = "delete"
  /\ adResponse.result = [data |-> Undef, status |-> 204]
  /\ adOutcome = Fulfilled(Undef)

C7_WitnessData ==
  /\ Responded
  /\ adCall.op = "deleteIconEntry"
  /\ adResponse.result = [data |-> Undef, status |-> 204]
  /\ adOutcome.state = "rejected"

\* The version parameter of each versioned query, by method and resource.
C8_VersionParam(call) ==
  CASE call.op = "getIconEntries" -> "icon_set_version"
    [] call.op = "getLayoutEntries" -> "layout_set_version"
    [] call.op = "getLinkEntries" -> "link_set_version"
    [] call.op = "getThemeVariables" -> "theme_version"
    [] call.op = "getGraphRuntime" -> "graph_type_version"
    [] call.op = "getBundle" /\ call.resource = "icon-sets" -> "icon_set_version"
    [] call.op = "getBundle" /\ call.resource = "layout-sets" -> "layout_set_version"
    [] call.op = "getBundle" /\ call.resource = "link-sets" -> "link_set_version"
    [] call.op = "getBundle" /\ call.resource = "graph-types" -> "graph_type_version"
    [] call.op = "getBundle" /\ call.resource = "themes" -> "theme_version"

C8_HasVersionQuery(call) ==
  call.op \in {"getBundle", "getIconEntries", "getLayoutEntries", "getLinkEntries",
               "getThemeVariables", "getGraphRuntime"}

C8_IsPositiveInteger(v) == v.t = "number" /\ v.den = 1 /\ v.num >= 1

\* C8: in getBundle, getIconEntries, getLayoutEntries, getLinkEntries,
\* getThemeVariables and getGraphRuntime a version that is present and not an
\* integer >= 1 fails with status 400 and a field error on 'version' before any
\* request is issued; an absent version passes as undefined and an integer >= 1 is
\* sent unchanged under the resource's own version parameter name.
C8_VersionGuard ==
  (adPc # "idle" /\ C8_HasVersionQuery(adCall)) =>
    IF adCall.query.version # Undef /\ ~C8_IsPositiveInteger(adCall.query.version)
    THEN /\ adPc = "settled"
         /\ adOutcome.state = "rejected"
         /\ adOutcome.reason.t = "HttpError"
         /\ adOutcome.reason.status = 400
         /\ "version" \in OrdKeys(adOutcome.reason.body.errors)
         /\ httpLog = <<>>
    ELSE /\ Len(httpLog) = 1
         /\ DOMAIN httpLog[1].query = {"stage", C8_VersionParam(adCall)}
         /\ httpLog[1].query[C8_VersionParam(adCall)] = adCall.query.version
         /\ httpLog[1].query.stage = adCall.query.stage

C8_Witness ==
  /\ adPc = "settled"
  /\ adCall.op = "getGraphRuntime"
  /\ adCall.query.version = Num(0)
  /\ adOutcome = Rejected(VersionError)
  /\ httpLog = <<>>

C8_WitnessSent ==
  /\ adPc = "inflight"
  /\ adCall.op = "getBundle"
  /\ adCall.resource = "themes"
  /\ adCall.query.version = Num(3)
  /\ httpLog[1].query.theme_version = Num(3)

\* The invocation fails client-side validation (the version guard).
C9_FailsValidation(call) ==
  /\ C8_HasVersionQuery(call)
  /\ call.query.version # Undef
  /\ ~C8_IsPositiveInteger(call.query.version)

\* C9: an invocation that passes client-side validation issues exactly one HTTP
\* request: none is added after a failed, empty or error response, and the call
\* settles after that single response.
C9_ExactlyOneRequest ==
  /\ (adPc # "idle" /\ ~C9_FailsValidation(adCall)) => Len(httpLog) = 1
  /\ (adPc # "idle" /\ C9_FailsValidation(adCall)) => Len(httpLog) = 0
  /\ adResponse # NoValue => adPc = "settled" /\ adOutcome # NoValue

C9_Witness ==
  /\ Responded
  /\ adCall.op = "get"
  /\ adResponse.result.status = 500
  /\ adOutcome.state = "rejected"
  /\ Len(httpLog) = 1

(***************************************************************************)
(* Claims about the record mapper.                                         *)
(***************************************************************************)
C10_IdField(resource) ==
  CASE resource = "icon-sets" -> "iconSetId"
    [] resource = "layout-sets" -> "layoutSetId"
    [] resource = "link-sets" -> "linkSetId"
    [] resource = "graph-types" -> "graphTypeId"
    [] resource = "themes" -> "themeId"

C10_HasIdentifier(resource, input) ==
  /\ input.t = "object"
  /\ C10_IdField(resource) \in DOMAIN input.f
  /\ input.f[C10_IdField(resource)].t \in {"string", "number"}

\* C10: whenever mapSummaryToRaRecord or mapRecordToRaRecord succeeds, the record's
\* id equals the input's top-level resource-specific identifier field, whatever
\* other keys the input or its draft carries; the mapper fails when that
\* identifier is missing or is neither a string nor a number.
C10_IdIsIdentifierField ==
  mpResult # Pending =>
    /\ mpResult.state = "fulfilled" =>
         /\ C10_HasIdentifier(mpResource, mpInput)
         /\ mpResult.result.f.id = mpInput.f[C10_IdField(mpResource)]
    /\ ~C10_HasIdentifier(mpResource, mpInput) => mpResult.state = "rejected"

\* The draft object of a mapper input: its own properties, none when the input
\* has no draft.
C11_DraftOf(input) ==
  IF "draft" \in DOMAIN input.f /\ input.f.draft # Undef THEN input.f.draft.f ELSE EmptyObj

C11_Mapped == mpFn = "mapRecordToRaRecord" /\ mpResult # Pending /\ mpResult.state = "fulfilled"

\* C11: mapRecordToRaRecord flattens draft as an ordered shallow merge: every key
\* of the draft is at top level of the result with the draft's value (the draft
\* wins a collision with a top-level field), and every top-level key the draft
\* does not have keeps its top-level value.
C11_DraftWins ==
  C11_Mapped =>
    /\ \A k \in DOMAIN C11_DraftOf(mpInput) :
         /\ k \in DOMAIN mpResult.result.f
         /\ mpResult.result.f[k] = C11_DraftOf(mpInput)[k]
    /\ \A k \in DOMAIN mpInput.f \ DOMAIN C11_DraftOf(mpInput) :
         /\ k \in DOMAIN mpResult.result.f
         /\ mpResult.result.f[k] = mpInput.f[k]

\* A record with top-level name 'Top' and draft.name 'Alpha' was flattened to
\* name 'Alpha'.
C11_Witness ==
  /\ C11_Mapped
  /\ "name" \in DOMAIN mpInput.f
  /\ mpInput.f.name = Str("Top")
  /\ "name" \in DOMAIN C11_DraftOf(mpInput)
  /\ mpResult.result.f.name = Str("Alpha")

\* draft.name = 'Alpha' and no top-level name: the result has name 'Alpha'.
C11_WitnessDraftOnly ==
  /\ C11_Mapped
  /\ "name" \notin DOMAIN mpInput.f
  /\ "name" \in DOMAIN C11_DraftOf(mpInput)
  /\ mpResult.result.f.name = Str("Alpha")

\* An already-flat record: it carries the id a flatten adds and has no draft field.
C12_AlreadyFlat(input) == "id" \in DOMAIN input.f /\ "draft" \notin DOMAIN input.f

\* C12: flattening is idempotent: a record without a draft field is returned equal to
\* the input, and mapping the result of a successful mapRecordToRaRecord once
\* more succeeds and gives the same record.
C12_Idempotent ==
  /\ (C11_Mapped /\ C12_AlreadyFlat(mpInput)) => mpResult.result = mpInput
  /\ mpAgain # Pending => mpAgain = mpResult

\* The second clause of C12 alone: mapping a mapped record again changes nothing.
C12_SecondMapIsNoOp == mpAgain # Pending => mpAgain = mpResult

\* The second map is a no-op whenever the draft has neither the identifier field
\* nor a draft of its own.
C12_IdempotentOnPlainDrafts ==
  (/\ mpAgain # Pending
   /\ DOMAIN C11_DraftOf(mpInput) \cap {C10_IdField(mpResource), "draft"} = {})
    => mpAgain = mpResult

(***************************************************************************)
(* Claims about the list operations.                                       *)
(***************************************************************************)
ListDone == lsResult # Pending /\ lsResult.state = "fulfilled"

\* The records the list operation works on: the listed summaries with their id.
ListedRecords == MapAll(lsResource, lsListed.result).result

\* The elements of a sequence.
Elements(seq) == {seq[i] : i \in 1..Len(seq)}

\* A filter value that is null, undefined or a blank string.
C13_BlankOrAbsent(value) ==
  \/ IsNullish(value)
  \/ (typeof(value) = "string" /\ trim(value.s) = "")

\* (a) of C13: the lower-cased q is a substring of the lower-cased string form of
\* some field value of the record.
C13_FreeText(record, q) ==
  \E k \in DOMAIN record.f :
    includes(toLowerCase(StringOrEmpty(record.f[k])), toLowerCase(q.s))

\* (b) of C13: every other key with a value that is not blank or absent has that
\* very value in the record.
C13_OtherKeysEqual(record, filter) ==
  \A k \in DOMAIN filter.f \ {"q"} :
    ~C13_BlankOrAbsent(filter.f[k]) =>
      (k \in DOMAIN record.f /\ record.f[k] = filter.f[k])

C13_Retains(record, filter) ==
  IsNullish(filter) \/
    (/\ ("q" \in DOMAIN filter.f /\ ~C13_BlankOrAbsent(filter.f.q)) =>
          C13_FreeText(record, filter.f.q)
     /\ C13_OtherKeysEqual(record, filter))

\* The filters C13 speaks of: q, when given, is text (a blank or non-blank string)
\* or absent.
C13_TextQuery(filter) ==
  IsNullish(filter) \/ "q" \notin DOMAIN filter.f
    \/ IsNullish(filter.f.q) \/ typeof(filter.f.q) = "string"

C13_Ids(records) == {r.f.id.s : r \in Elements(records)}

C13_WitnessAll ==
  /\ ListDone
  /\ lsOp = "getList"
  /\ C13_Ids(ListedRecords) = {"icons-beta", "icons-alpha", "icons-gamma"}
  /\ lsParams.filter = Obj([q |-> Str("a")])
  /\ C13_Ids(lsSorted) = {"icons-beta", "icons-alpha", "icons-gamma"}

\* The filter a list operation applies: the caller's for getList, the caller's
\* with the reference entry for getManyReference.
AppliedFilter ==
  IF lsOp = "getManyReference"
  THEN mergedFilter([filter |-> lsParams.filter, target |-> lsRef.target, id |-> lsRef.id])
  ELSE lsParams.filter

\* C14: the total getList and getManyReference return is the number of listed
\* records that pass the filter, whatever the page, the page size and the sort;
\* the data is cut out of those records after the sort.
C14_TotalIsFilteredCount ==
  ListDone =>
    /\ lsResult.result.total =
         Cardinality({i \in 1..Len(ListedRecords) :
                        matchesFilter(ListedRecords[i], AppliedFilter)})
    /\ Elements(lsResult.result.data) \subseteq Elements(lsSorted)

\* Three records were listed, two passed the filter, a page of one was returned:
\* the total is 2.
C14_Witness ==
  /\ ListDone
  /\ Len(ListedRecords) = 3
  /\ lsResult.result.total = 2
  /\ Len(lsResult.result.data) = 1

\* The comparison C15 describes: the difference of two numbers, the case-blind
\* string comparison otherwise.
C15_Compare(left, right) ==
  IF typeof(left) = "number" /\ typeof(right) = "number"
  THEN left.num - right.num
  ELSE localeCompare(toLowerCase(StringOrEmpty(left)), toLowerCase(StringOrEmpty(right)))

\* The comparison in the direction of the sort.
C15_Directed(sort, left, right) ==
  IF sort.f.order = Str("ASC")
  THEN C15_Compare(Prop(left, sort.f.field.s), Prop(right, sort.f.field.s))
  ELSE C15_Compare(Prop(right, sort.f.field.s), Prop(left, sort.f.field.s))

\* The records that passed the filter, in listed order.
C15_Filtered == ArrayFilter(ListedRecords, AppliedFilter)

\* Where a record stands in the filtered list.
C15_IndexIn(seq, record) == CHOOSE i \in 1..Len(seq) : seq[i] = record

C15_OrderedAndStable(sort) ==
  /\ Len(lsSorted) = Len(C15_Filtered)
  /\ Elements(lsSorted) = Elements(C15_Filtered)
  /\ \A i, j \in 1..Len(lsSorted) :
       i < j =>
         /\ C15_Directed(sort, lsSorted[i], lsSorted[j]) <= 0
         /\ C15_Directed(sort, lsSorted[i], lsSorted[j]) = 0 =>
              C15_IndexIn(C15_Filtered, lsSorted[i]) < C15_IndexIn(C15_Filtered, lsSorted[j])

C15_Transitive(sort) ==
  \A a, b, c \in Elements(C15_Filtered) :
    (C15_Directed(sort, a, b) <= 0 /\ C15_Directed(sort, b, c) <= 0)
      => C15_Directed(sort, a, c) <= 0

C15_Names(records) == [i \in 1..Len(records) |-> records[i].f.name.s]

C15_WitnessStableDesc ==
  /\ ListDone
  /\ lsParams.sort = Obj([field |-> Str("name"), order |-> Str("DESC")])
  /\ C15_Names(lsSorted) = <<"Gamma", "alpha", "Alpha">>

\* page and perPage of a call that gives both, at least 1 each.
C16_Paged ==
  /\ ~IsNullish(lsParams.pagination)
  /\ lsParams.pagination.f.page.num >= 1
  /\ lsParams.pagination.f.perPage.num >= 1

C16_Page == lsParams.pagination.f.page.num
C16_PerPage == lsParams.pagination.f.perPage.num

\* The elements of seq at the 0-based indices from..(to - 1) that exist.
C16_Range(seq, from, to) ==
  [i \in 1..(IF to < Len(seq) THEN to - from ELSE Max(Len(seq) - from, 0)) |-> seq[from + i]]

RECURSIVE C16_Pages(_, _, _)
\* Pages 1..n of the sorted list, one after the other.
C16_Pages(sorted, perPage, n) ==
  IF n = 0 THEN <<>>
  ELSE C16_Pages(sorted, perPage, n - 1)
         \o PageSlice(sorted, Obj([page |-> Num(n), perPage |-> Num(perPage)]))

C16_PageCount(total, perPage) == (total + perPage - 1) \div perPage

\* C16: for page >= 1 and perPage >= 1 the data is the sorted filtered list at the
\* indices [(page-1)*perPage, (page-1)*perPage + perPage): at most perPage
\* elements, none past the end, and the pages 1..ceil(total/perPage) in order
\* make up the sorted filtered list.
C16_Pagination ==
  (ListDone /\ C16_Paged) =>
    /\ lsResult.result.data =
         C16_Range(lsSorted, (C16_Page - 1) * C16_PerPage,
                   (C16_Page - 1) * C16_PerPage + C16_PerPage)
    /\ Len(lsResult.result.data) <= C16_PerPage
    /\ (C16_Page - 1) * C16_PerPage >= Len(lsSorted) => lsResult.result.data = <<>>
    /\ C16_Pages(lsSorted, C16_PerPage,
                 C16_PageCount(lsResult.result.total, C16_PerPage)) = lsSorted

\* Page 2 of 2 over three records holds the third record alone.
C16_Witness ==
  /\ ListDone
  /\ C16_Paged
  /\ C16_Page = 2
  /\ C16_PerPage = 2
  /\ Len(lsSorted) = 3
  /\ lsResult.result.data = <<lsSorted[3]>>

\* A page past the end is empty.
C16_WitnessPastEnd ==
  /\ ListDone
  /\ C16_Paged
  /\ C16_Page = 3
  /\ Len(lsSorted) = 2
  /\ lsResult.result.data = <<>>

\* record[target] === id
C17_References(record) ==
  /\ lsRef.target \in DOMAIN record.f
  /\ record.f[lsRef.target] = lsRef.id

\* The caller's filter without the target key.
C17_OtherFilters ==
  IF IsNullish(lsParams.filter) THEN Undef
  ELSE Obj([k \in DOMAIN lsParams.filter.f \ {lsRef.target} |-> lsParams.filter.f[k]])

\* C17: every record getManyReference returns has record[target] === id, and the
\* total is the number of listed records with record[target] === id that pass
\* the caller's other filters.
C17_ReferenceEquality ==
  (ListDone /\ lsOp = "getManyReference") =>
    /\ \A record \in Elements(lsResult.result.data) : C17_References(record)
    /\ lsResult.result.total =
         Cardinality({i \in 1..Len(ListedRecords) :
                        /\ C17_References(ListedRecords[i])
                        /\ matchesFilter(ListedRecords[i], C17_OtherFilters)})

\* C17 holds for a target other than q with an id that is not a blank string.
C17_EqualityOnPlainReferences ==
  (/\ ListDone
   /\ lsOp = "getManyReference"
   /\ lsRef.target # "q"
   /\ ~C13_BlankOrAbsent(lsRef.id))
    => /\ \A record \in Elements(lsResult.result.data) : C17_References(record)
       /\ lsResult.result.total =
            Cardinality({i \in 1..Len(ListedRecords) :
                           /\ C17_References(ListedRecords[i])
                           /\ matchesFilter(ListedRecords[i], C17_OtherFilters)})

(***************************************************************************)
(* Claims about create, update and updateMany.                             *)
(***************************************************************************)
\* create, update or updateMany has been called.
ProviderStarted == dpOp \in {"create", "update", "updateMany"}

\* The five resources of the admin.
InScope == dpResource \in {"icon-sets", "layout-sets", "link-sets", "graph-types", "themes"}

C18_IsObject(value) == value.t = "object"

\* Missing, not a string, empty or whitespace only.
C18_NoText(value) == value.t # "string" \/ trim(value.s) = ""

\* The required string fields of a create or update request.
C18_RequiredStrings(resource, op) ==
  (IF op = "create" THEN {C10_IdField(resource)} ELSE {})
    \cup {"name"}
    \cup (IF resource = "themes" THEN {"cssBody"} ELSE {})

\* The required object fields: entries, elkSettings and the references.
C18_RequiredObjects(resource) ==
  CASE resource \in {"icon-sets", "link-sets"} -> {"entries"}
    [] resource = "layout-sets" -> {"elkSettings"}
    [] resource = "graph-types" -> {"layoutSetRef", "linkSetRef"}
    [] OTHER -> {}

C18_RequiredArrays(resource) == IF resource = "graph-types" THEN {"iconSetRefs"} ELSE {}

\* The required fields of the data that are missing or malformed.
C18_Offending(resource, op, data) ==
  {k \in C18_RequiredStrings(resource, op) : C18_NoText(Prop(data, k))}
    \cup {k \in C18_RequiredObjects(resource) : ~C18_IsObject(Prop(data, k))}
    \cup {k \in C18_RequiredArrays(resource) : Prop(data, k).t # "array"}

\* The fields the error body of a rejection is indexed by.
C18_ErrorFields(result) ==
  IF result.reason.t = "HttpError" /\ result.reason.body # Undef
  THEN {result.reason.body.errors[i].key : i \in DOMAIN result.reason.body.errors}
  ELSE {}

C18_RejectedAt(fields) ==
  /\ dpPc = "done"
  /\ dpResult.state = "rejected"
  /\ dpResult.reason.t = "HttpError"
  /\ dpResult.reason.status = 400
  /\ Cardinality(C18_ErrorFields(dpResult)) = 1
  /\ C18_ErrorFields(dpResult) \subseteq fields
  /\ dpCalls = <<>>

\* C18: create, update and updateMany on data that is not an object, or whose
\* required field is missing or malformed (blank string, entries / elkSettings /
\* reference that is not an object, iconSetRefs that is not an array), reject
\* with status 400 and an error indexed by an offending field, and no call to
\* adapter.create or adapter.update is made.
C18_ValidationFirst ==
  (ProviderStarted /\ InScope) =>
    /\ ~C18_IsObject(dpParams.data) => C18_RejectedAt({"data"})
    /\ (C18_IsObject(dpParams.data) /\ C18_Offending(dpResource, dpOp, dpParams.data) # {})
         => C18_RejectedAt(C18_Offending(dpResource, dpOp, dpParams.data))

\* create with a whitespace-only name was rejected at 'name' without a call.
C18_Witness ==
  /\ dpOp = "create"
  /\ InScope
  /\ C18_IsObject(dpParams.data)
  /\ Prop(dpParams.data, "name") = Str("  ")
  /\ C18_RejectedAt({"name"})

\* updateMany over two ids with iconSetRefs that is not an array made no call.
C18_WitnessUpdateMany ==
  /\ dpOp = "updateMany"
  /\ dpResource = "graph-types"
  /\ Len(dpParams.ids) = 2
  /\ C18_RejectedAt({"iconSetRefs"})

\* The fields of the create request of a resource.
C19_CreateFields(resource) ==
  CASE resource = "icon-sets" -> {"iconSetId", "name", "entries"}
    [] resource = "layout-sets" -> {"layoutSetId", "name", "elkSettings"}
    [] resource = "link-sets" -> {"linkSetId", "name", "entries"}
    [] resource = "graph-types" ->
         {"graphTypeId", "name", "layoutSetRef", "iconSetRefs", "linkSetRef",
          "iconConflictPolicy"}
    [] resource = "themes" -> {"themeId", "name", "cssBody", "variables"}

C19_UpdateFields(resource) == C19_CreateFields(resource) \ {C10_IdField(resource)}

\* The request fields that are copied from the input as they are.
C19_CopiedFields(resource) ==
  C19_CreateFields(resource) \ {"layoutSetRef", "iconSetRefs", "linkSetRef", "iconConflictPolicy"}

\* An integer >= 1, as a number or as its decimal text.
C19_PositiveInteger(value) ==
  \/ (value.t = "number" /\ value.den = 1 /\ value.num >= 1)
  \/ (value.t = "string" /\ trim(value.s) # "" /\ IsDigits(trim(value.s))
        /\ ParseDigits(trim(value.s), 0) >= 1)

C19_ValidRef(ref, idKey, versionKey) ==
  /\ C18_IsObject(ref)
  /\ ~C18_NoText(Prop(ref, idKey))
  /\ C19_PositiveInteger(Prop(ref, versionKey))

\* Input that passes every rule of the resource's request.
C19_ValidInput(resource, op, data) ==
  /\ C18_IsObject(data)
  /\ C18_Offending(resource, op, data) = {}
  /\ resource = "themes" => (Prop(data, "variables") = Undef \/ C18_IsObject(Prop(data, "variables")))
  /\ resource = "graph-types" =>
       /\ C19_ValidRef(Prop(data, "layoutSetRef"), "layoutSetId", "layoutSetVersion")
       /\ C19_ValidRef(Prop(data, "linkSetRef"), "linkSetId", "linkSetVersion")
       /\ Len(Prop(data, "iconSetRefs").a) >= 1
       /\ \A i \in 1..Len(Prop(data, "iconSetRefs").a) :
            C19_ValidRef(Prop(data, "iconSetRefs").a[i], "iconSetId", "iconSetVersion")

\* String(id) of an identifier.
C19_IdText(id) == IF id.t = "string" THEN id.s ELSE NatToString(id.num)

\* C19: on valid input create calls adapter.create exactly once with the resource
\* and a payload of exactly the create-request fields, each taken from the input;
\* update calls adapter.update once with String(id) and a payload of the update
\* fields only, never the identifier field; the data returned is the flattened
\* record of the response.
C19_PayloadAndResult ==
  (ProviderStarted /\ InScope /\ dpOp \in {"create", "update"}) =>
    /\ C19_ValidInput(dpResource, dpOp, dpParams.data) => Len(dpCalls) = 1
    /\ dpCalls # <<>> =>
         /\ Len(dpCalls) = 1
         /\ dpCalls[1].method = dpOp
         /\ dpCalls[1].resource = dpResource
         /\ DOMAIN dpCalls[1].payload.f =
              (IF dpOp = "create" THEN C19_CreateFields(dpResource)
               ELSE C19_UpdateFields(dpResource))
         /\ \A k \in C19_CopiedFields(dpResource) \cap DOMAIN dpCalls[1].payload.f :
              dpCalls[1].payload.f[k] = Prop(dpParams.data, k)
         /\ dpOp = "update" => dpCalls[1].id = C19_IdText(dpParams.id)
    /\ (dpPc = "done" /\ dpCalls # <<>> /\ dpSettled[1].state = "fulfilled"
          /\ mapRecordToRaRecord(dpResource, dpSettled[1].result).state = "fulfilled")
         => dpResult =
              Fulfilled([data |-> mapRecordToRaRecord(dpResource, dpSettled[1].result).result])

\* create of an icon set with a further input field: one call with the three
\* request fields, and the flattened record with name 'Alpha' came back.
C19_Witness ==
  /\ dpOp = "create"
  /\ dpResource = "icon-sets"
  /\ dpPc = "done"
  /\ C18_IsObject(dpParams.data)
  /\ "publishedVersion" \in DOMAIN dpParams.data.f
  /\ Len(dpCalls) = 1
  /\ DOMAIN dpCalls[1].payload.f = {"iconSetId", "name", "entries"}
  /\ dpResult.state = "fulfilled"
  /\ dpResult.result.data.f.name = Str("Alpha")
  /\ dpResult.result.data.f.id = Str("icons-alpha")

\* update with the numeric id 7 called adapter.update with '7' and no iconSetId.
C19_WitnessUpdate ==
  /\ dpOp = "update"
  /\ dpResource = "icon-sets"
  /\ dpParams.id = Num(7)
  /\ Len(dpCalls) = 1
  /\ dpCalls[1].id = "7"
  /\ DOMAIN dpCalls[1].payload.f = {"name", "entries"}

C20_Allowed == {Str("reject"), Str("first-wins"), Str("last-wins")}

C20_GraphTypeCall ==
  /\ ProviderStarted
  /\ dpResource = "graph-types"
  /\ dpOp \in {"create", "update"}

\* C20: the iconConflictPolicy of a graph-type payload is the supplied value when
\* that is 'reject', 'first-wins' or 'last-wins' and 'reject' for any other
\* supplied value, and no policy value makes the validation fail.
C20_PolicyFallback ==
  C20_GraphTypeCall =>
    /\ dpCalls # <<>> =>
         dpCalls[1].payload.f.iconConflictPolicy =
           (IF Prop(dpParams.data, "iconConflictPolicy") \in C20_Allowed
            THEN Prop(dpParams.data, "iconConflictPolicy") ELSE Str("reject"))
    /\ C19_ValidInput(dpResource, dpOp, dpParams.data) => dpCalls # <<>>

\* The supplied policy without the white space around it.
C20_Trimmed(value) == IF value.t = "string" THEN Str(trim(value.s)) ELSE value

\* C20 holds when the supplied value is compared after trimming.
C20_PolicyFallbackAfterTrim ==
  C20_GraphTypeCall =>
    /\ dpCalls # <<>> =>
         dpCalls[1].payload.f.iconConflictPolicy =
           (IF C20_Trimmed(Prop(dpParams.data, "iconConflictPolicy")) \in C20_Allowed
            THEN C20_Trimmed(Prop(dpParams.data, "iconConflictPolicy")) ELSE Str("reject"))
    /\ C19_ValidInput(dpResource, dpOp, dpParams.data) => dpCalls # <<>>

\* A supplied 'first-wins' reached the payload; an unknown 'merge' became 'reject'.
C20_ReachedAllowed ==
  /\ C20_GraphTypeCall
  /\ dpCalls # <<>>
  /\ Prop(dpParams.data, "iconConflictPolicy") = Str("first-wins")
  /\ dpCalls[1].payload.f.iconConflictPolicy = Str("first-wins")

(***************************************************************************)
(* Claims about the references of a graph type.                            *)
(***************************************************************************)
\* An integer >= 1 of number type.
C21_VersionNumber(value) == value.t = "number" /\ value.den = 1 /\ value.num >= 1

\* The adapter calls that carry a graph-type payload.
C21_GraphTypeCalls == {i \in DOMAIN dpCalls : dpCalls[i].resource = "graph-types"}

C21_PayloadVersions(payload) ==
  /\ C21_VersionNumber(payload.f.layoutSetRef.f.layoutSetVersion)
  /\ C21_VersionNumber(payload.f.linkSetRef.f.linkSetVersion)
  /\ payload.f.iconSetRefs.t = "array"
  /\ Len(payload.f.iconSetRefs.a) >= 1
  /\ \A i \in 1..Len(payload.f.iconSetRefs.a) :
       C21_VersionNumber(payload.f.iconSetRefs.a[i].f.iconSetVersion)

\* Everything of the data but the versions and the length of iconSetRefs passes:
\* required strings, references that are objects with an id, an array of such.
C21_RestValid(op, data) ==
  /\ C18_IsObject(data)
  /\ C18_Offending("graph-types", op, data) = {}
  /\ ~C18_NoText(Prop(Prop(data, "layoutSetRef"), "layoutSetId"))
  /\ ~C18_NoText(Prop(Prop(data, "linkSetRef"), "linkSetId"))
  /\ \A i \in 1..Len(Prop(data, "iconSetRefs").a) :
       /\ C18_IsObject(Prop(data, "iconSetRefs").a[i])
       /\ ~C18_NoText(Prop(Prop(data, "iconSetRefs").a[i], "iconSetId"))

\* The field paths of the versions that are not an integer >= 1.
C21_BadVersionPaths(data) ==
  (IF C19_PositiveInteger(Prop(Prop(data, "layoutSetRef"), "layoutSetVersion")) THEN {}
   ELSE {"layoutSetRef.layoutSetVersion"})
  \cup (IF C19_PositiveInteger(Prop(Prop(data, "linkSetRef"), "linkSetVersion")) THEN {}
        ELSE {"linkSetRef.linkSetVersion"})
  \cup {"iconSetRefs[" \o NatToString(i - 1) \o "].iconSetVersion" :
          i \in {j \in 1..Len(Prop(data, "iconSetRefs").a) :
                   ~C19_PositiveInteger(Prop(Prop(data, "iconSetRefs").a[j], "iconSetVersion"))}}

\* C21: every graph-type payload handed to the adapter has a non-empty
\* iconSetRefs and versions that are integers >= 1 of number type; with the rest
\* of the data valid, an empty iconSetRefs is rejected with 400 at 'iconSetRefs'
\* and a version that is 0, negative, fractional, not numeric or absent is
\* rejected with 400 at that version's field path, without an adapter call.
C21_GraphTypeReferences ==
  (ProviderStarted /\ dpResource = "graph-types") =>
    /\ \A i \in C21_GraphTypeCalls : C21_PayloadVersions(dpCalls[i].payload)
    /\ C21_RestValid(dpOp, dpParams.data) =>
         /\ C21_BadVersionPaths(dpParams.data) # {}
              => C18_RejectedAt(C21_BadVersionPaths(dpParams.data))
         /\ (C21_BadVersionPaths(dpParams.data) = {}
               /\ Len(Prop(dpParams.data, "iconSetRefs").a) = 0)
              => C18_RejectedAt({"iconSetRefs"})

\* The version '3' given as text for the second icon set reached adapter.create
\* as the number 3.
C21_Witness ==
  /\ dpOp = "create"
  /\ dpResource = "graph-types"
  /\ Len(dpCalls) = 1
  /\ C18_IsObject(dpParams.data)
  /\ Prop(dpParams.data, "iconSetRefs").t = "array"
  /\ Len(Prop(dpParams.data, "iconSetRefs").a) = 2
  /\ Prop(Prop(dpParams.data, "iconSetRefs").a[2], "iconSetVersion") = Str("3")
  /\ dpCalls[1].payload.f.iconSetRefs.a[2].f.iconSetVersion = Num(3)

\* The version 0 of the first icon set was rejected at its field path.
C21_WitnessZero ==
  /\ dpResource = "graph-types"
  /\ C18_IsObject(dpParams.data)
  /\ Prop(dpParams.data, "iconSetRefs").t = "array"
  /\ Len(Prop(dpParams.data, "iconSetRefs").a) = 1
  /\ Prop(Prop(dpParams.data, "iconSetRefs").a[1], "iconSetVersion") = Num(0)
  /\ C18_RejectedAt({"iconSetRefs[0].iconSetVersion"})

\* An empty iconSetRefs was rejected at 'iconSetRefs'.
C21_WitnessEmpty ==
  /\ dpResource = "graph-types"
  /\ C18_IsObject(dpParams.data)
  /\ Prop(dpParams.data, "iconSetRefs") = Arr(<<>>)
  /\ C18_RejectedAt({"iconSetRefs"})

\* An absent layoutSetVersion was rejected at its field path.
C21_WitnessAbsent ==
  /\ dpResource = "graph-types"
  /\ C21_RestValid(dpOp, dpParams.data)
  /\ Prop(Prop(dpParams.data, "layoutSetRef"), "layoutSetVersion") = Undef
  /\ C18_RejectedAt({"layoutSetRef.layoutSetVersion"})

(***************************************************************************)
(* Claims about the resource scope and about delete.                       *)
(***************************************************************************)
\* One of the nine operations of the provider has been called.
ProviderCalled == dpOp # ""

\* A 4xx HttpError whose message contains the name of the resource.
C22_ScopeError(result, resource) ==
  /\ result.state = "rejected"
  /\ result.reason.t = "HttpError"
  /\ result.reason.status >= 400
  /\ result.reason.status <= 499
  /\ includes(result.reason.message, resource)

\* C22: every operation of the provider called with a resource name outside the
\* five scoped names is rejected with a 400-class error whose message names the
\* resource, and no adapter method is invoked.
C22_OutOfScopeRejected ==
  (ProviderCalled /\ ~InScope) =>
    /\ dpPc = "done"
    /\ C22_ScopeError(dpResult, dpResource)
    /\ dpCalls = <<>>

\* The same holds for the operations other than delete and deleteMany.
C22_OutOfScopeRejectedButDelete ==
  (ProviderCalled /\ ~InScope /\ dpOp \notin {"delete", "deleteMany"}) =>
    /\ dpPc = "done"
    /\ C22_ScopeError(dpResult, dpResource)
    /\ dpCalls = <<>>

\* delete and deleteMany invoke no adapter method either.
C22_NoAdapterCallOutOfScope == (ProviderCalled /\ ~InScope) => dpCalls = <<>>

\* getMany on 'widgets' was rejected naming 'widgets'.
C22_ReachedGetMany ==
  /\ dpOp = "getMany"
  /\ dpResource = "widgets"
  /\ C22_ScopeError(dpResult, "widgets")
  /\ dpResult.reason.status = 400

\* getList and getManyReference on a resource out of scope are rejected with
\* status 400 and a message that names the resource.
C22_ListOutOfScope ==
  (lsOp # "" /\ lsResource \notin {"icon-sets", "layout-sets", "link-sets", "graph-types",
                                   "themes"}) =>
    /\ C22_ScopeError(lsResult, lsResource)
    /\ lsSorted = NoValue

\* The adapter the provider was created with has a delete method.
AdapterHasDelete == "delete" \in dpAdapter

\* C23: with an adapter that provides delete, provider.delete(resource, {id})
\* on each of the five resources invokes adapter.delete once with the resource
\* and the id, and resolves with data whose id is the requested id.
C23_DeleteProxies ==
  (dpOp = "delete" /\ InScope /\ AdapterHasDelete) =>
    /\ Len(dpCalls) = 1
    /\ dpCalls[1].method = "delete"
    /\ dpCalls[1].resource = dpResource
    /\ dpCalls[1].id = C19_IdText(dpParams.id)
    /\ (dpPc = "done" /\ dpSettled[1] # Pending /\ dpSettled[1].state = "fulfilled")
         => /\ dpResult.state = "fulfilled"
            /\ dpResult.result.data.f.id = dpParams.id

\* What delete does with such an adapter: no call, and the 405 rejection.
C23_DeleteAlwaysRejects ==
  (dpOp = "delete" /\ InScope /\ AdapterHasDelete) =>
    /\ dpCalls = <<>>
    /\ dpResult.state = "rejected"
    /\ dpResult.reason.status = 405

\* C24: with an adapter that has no delete, delete and deleteMany reject with
\* status 405 and the fixed message 'Delete is not supported for these resources
\* by the current API.', given under the field key 'root.serverError' as well,
\* and neither an adapter method nor an HTTP request is invoked.
C24_UnsupportedDelete ==
  (dpOp \in {"delete", "deleteMany"} /\ ~AdapterHasDelete) =>
    /\ dpPc = "done"
    /\ dpResult.state = "rejected"
    /\ dpResult.reason.t = "HttpError"
    /\ dpResult.reason.status = 405
    /\ dpResult.reason.message =
         "Delete is not supported for these resources by the current API."
    /\ dpResult.reason.body.errors =
         <<[key |-> "root.serverError",
            value |-> "Delete is not supported for these resources by the current API."]>>
    /\ dpCalls = <<>>
    /\ httpLog = <<>>

\* deleteMany of two layout sets on an adapter without delete was rejected with 405.
C24_Witness ==
  /\ dpOp = "deleteMany"
  /\ dpResource = "layout-sets"
  /\ Len(dpParams.ids) = 2
  /\ ~AdapterHasDelete
  /\ dpPc = "done"
  /\ dpResult.state = "rejected"
  /\ dpResult.reason.status = 405
  /\ dpCalls = <<>>

\* delete of one theme on an adapter without delete was rejected with 405.
C24_WitnessDelete ==
  /\ dpOp = "delete"
  /\ dpResource = "themes"
  /\ ~AdapterHasDelete
  /\ dpResult.state = "rejected"
  /\ dpResult.reason.status = 405

(***************************************************************************)
(* Claims about the API token and the request headers.                     *)
(***************************************************************************)
\* C25: every request sent through the API client carries Accept:
\* application/json, and carries Authorization: Bearer <token> exactly when
\* getApiToken() gave a token that is not null as the request was sent.
C25_Headers ==
  \A i \in DOMAIN clSent :
    LET headers == clSent[i].sent.headers
        token == clSent[i].token
    IN /\ "Accept" \in DOMAIN headers
       /\ headers["Accept"] = "application/json"
       /\ ("Authorization" \in DOMAIN headers) <=> (token # Null)
       /\ token # Null => headers["Authorization"] = "Bearer " \o token.s

\* A request sent without a token was followed, after setApiToken('tok-a'), by
\* a request that carries 'Bearer tok-a'; both carry Accept.
C25_Witness ==
  /\ Len(clSent) = 2
  /\ clSent[1].token = Null
  /\ DOMAIN clSent[1].sent.headers = {"Accept"}
  /\ clSent[2].token = Str("tok-a")
  /\ clSent[2].sent.headers["Authorization"] = "Bearer tok-a"
  /\ clSent[2].sent.headers["Accept"] = "application/json"

\* Not empty and not white space only.
C26_NonBlank(token) == token.t = "string" /\ trim(token.s) # ""

\* The token the most recent setApiToken call left: its argument when that is a
\* non-blank string, null otherwise and before the first call.
C26_LastSet == IF clLastSet.t = "string" /\ C26_NonBlank(clLastSet) THEN clLastSet ELSE Null

\* The token getApiToken() returns in the current state.
C26_Token == getApiToken(clEnvToken, clWindow, clStorage)

\* C26: after any sequence of setApiToken calls getApiToken returns the static
\* token when a non-blank one is configured, otherwise the argument of the most
\* recent setApiToken call when that was a non-blank string and null when there
\* was no call or the most recent one passed null or a blank string; it never
\* returns an empty or whitespace-only token.
C26_TokenResolution ==
  /\ C26_Token = (IF C26_NonBlank(clEnvToken) THEN clEnvToken ELSE C26_LastSet)
  /\ C26_Token # Null => C26_NonBlank(C26_Token)

\* C26 as it holds: where `window` is defined the token is resolved as above;
\* where it is not, setApiToken stores nothing and getApiToken returns the
\* non-blank static token or null.
C26_TokenResolutionWithWindow ==
  /\ clWindow =>
       C26_Token = (IF C26_NonBlank(clEnvToken) THEN clEnvToken ELSE C26_LastSet)
  /\ ~clWindow =>
       C26_Token = (IF C26_NonBlank(clEnvToken) THEN clEnvToken ELSE Null)
  /\ C26_Token # Null => C26_NonBlank(C26_Token)

\* With a blank static token, setApiToken(' tok-b ') made getApiToken return it.
C26_Witness ==
  /\ clWindow
  /\ clEnvToken = Str("  ")
  /\ clLastSet = Str(" tok-b ")
  /\ C26_Token = Str(" tok-b ")

\* A stored token was removed by setApiToken with a blank string: a request
\* sent with 'tok-a' is followed by one without a token.
C26_WitnessRemoved ==
  /\ clWindow
  /\ Len(clSent) = 2
  /\ clSent[1].token = Str("tok-a")
  /\ clSent[2].token = Null
  /\ clLastSet = Str("  ")
  /\ C26_Token = Null

(***************************************************************************)
(* Claims about operations in flight at the same time.                     *)
(***************************************************************************)
\* The responses an operation has received after the first k of them, in the
\* order they arrived.
C27_SettledAfter(slot, k) ==
  [i \in DOMAIN slot.calls |->
     IF \E j \in 1..k : slot.order[j] = i THEN slot.settled[i] ELSE Pending]

\* The result the operation has when it runs alone with the same arguments and
\* receives the same responses in the same order.
RECURSIVE C27_Alone(_, _)
C27_Alone(slot, k) ==
  IF k = 0
  THEN (IF slot.op.kind = "adapter" THEN InvokeOperation(slot.op.call).result
        ELSE StartOperation(slot.op).result)
  ELSE IF slot.op.kind = "adapter"
  THEN MethodOutcome(slot.op.call, slot.settled[slot.order[k]])
  ELSE ProviderSettles(slot.op.op, slot.op.resource, C27_Alone(slot, k - 1),
                       C27_SettledAfter(slot, k), slot.order[k])

\* C27: of two operations of the adapter or the data provider in flight at the
\* same time, under any interleaving of their responses, each has the result or
\* error it has alone with its own arguments and its own responses; what the
\* other is called with, receives or fails with changes nothing.
C27_Independent ==
  \A s \in Slots :
    ccSlots[s] # NoValue => ccSlots[s].result = C27_Alone(ccSlots[s], Len(ccSlots[s].order))

\* A step of one operation leaves the other operation as it was.
C27_OtherUntouched ==
  [][\A s \in Slots :
       (ccLog' # ccLog /\ ccLog'[Len(ccLog')][2] # s) => ccSlots'[s] = ccSlots[s]]_vars

\* Two operations were called before either settled; the second was rejected
\* first, then the first was fulfilled.
C27_Witness ==
  /\ ccLog = <<<<"called", "first">>, <<"called", "second">>,
               <<"settled", "second">>, <<"settled", "first">>>>
  /\ ccSlots["second"].result.state = "rejected"
  /\ ccSlots["first"].result.state = "fulfilled"

\* getMany over two ids and an adapter get were interleaved: one record came
\* back to getMany, the get failed, the second record came back, and getMany
\* was fulfilled with the two records.
C27_WitnessGetMany ==
  /\ Len(ccLog) = 5
  /\ ccLog[3] = <<"settled", "first">>
  /\ ccLog[4] = <<"settled", "second">>
  /\ ccLog[5] = <<"settled", "first">>
  /\ ccSlots["first"].op.kind = "provider"
  /\ ccSlots["first"].op.op = "getMany"
  /\ ccSlots["second"].op.kind = "adapter"
  /\ ccSlots["second"].result.state = "rejected"
  /\ ccSlots["first"].result.state = "fulfilled"
  /\ Len(ccSlots["first"].result.result.data) = 2

(***************************************************************************)
(* Claims about getMany and updateMany.                                    *)
(***************************************************************************)
\* The adapter calls that have settled with a rejection.
C28_Failed == {i \in DOMAIN dpSettled : dpSettled[i] # Pending /\ dpSettled[i].state = "rejected"}

\* The adapter calls that have settled with a record that has its identifier.
C28_Answered ==
  {i \in DOMAIN dpSettled :
     /\ dpSettled[i] # Pending
     /\ dpSettled[i].state = "fulfilled"
     /\ C18_IsObject(dpSettled[i].result)
     /\ C10_HasIdentifier(dpResource, dpSettled[i].result)}

\* The flattened record of the response to call i.
C28_Flattened(i) == mapRecordToRaRecord(dpResource, dpSettled[i].result).result

\* One call of the method per id, in the order of params.ids.
C28_OneCallPerId(method) ==
  /\ Len(dpCalls) = Len(dpParams.ids)
  /\ \A i \in DOMAIN dpCalls :
       /\ dpCalls[i].method = method
       /\ dpCalls[i].resource = dpResource
       /\ dpCalls[i].id = C19_IdText(dpParams.ids[i])

\* C28: getMany issues one adapter.get per requested id before any of them
\* settles; when all have answered, in whatever order, it resolves with the
\* flattened records in the order of params.ids; when one get fails it rejects
\* with that error and gives no data.  updateMany issues one adapter.update per
\* id with one payload and returns the identifiers of the responses in the
\* order of params.ids.
C28_ManyInOrder ==
  /\ (dpOp = "getMany" /\ InScope) =>
       /\ C28_OneCallPerId("get")
       /\ C28_Answered = DOMAIN dpCalls =>
            /\ dpResult.state = "fulfilled"
            /\ Len(dpResult.result.data) = Len(dpParams.ids)
            /\ \A i \in DOMAIN dpCalls : dpResult.result.data[i] = C28_Flattened(i)
       /\ C28_Failed # {} => (dpResult # Pending /\ dpResult.state = "rejected")
       /\ (Cardinality(C28_Failed) = 1 /\ C28_Failed \cup C28_Answered = DOMAIN dpCalls) =>
            \A i \in C28_Failed : dpResult = dpSettled[i]
  /\ (dpOp = "updateMany" /\ InScope /\ dpCalls # <<>>) =>
       /\ C28_OneCallPerId("update")
       /\ \A i, j \in DOMAIN dpCalls : dpCalls[i].payload = dpCalls[j].payload
       /\ C28_Answered = DOMAIN dpCalls =>
            /\ dpResult.state = "fulfilled"
            /\ \A i \in DOMAIN dpCalls :
                 dpResult.result.data[i] = Prop(dpSettled[i].result, C10_IdField(dpResource))

\* getMany of 'icons-alpha' and 7: the get of 7 answered first, and the data are
\* the record of 'icons-alpha', then the record of '7'.
C28_Witness ==
  /\ dpOp = "getMany"
  /\ dpResource = "icon-sets"
  /\ dpParams.ids = <<Str("icons-alpha"), Num(7)>>
  /\ dpOrder = <<2, 1>>
  /\ dpResult.state = "fulfilled"
  /\ dpResult.result.data[1].f.id = Str("icons-alpha")
  /\ dpResult.result.data[2].f.id = Str("7")

\* Both gets of a getMany are in flight at once.
C28_WitnessInFlight ==
  /\ dpOp = "getMany"
  /\ Len(dpCalls) = 2
  /\ dpSettled = <<Pending, Pending>>

\* The second get failed with 404 after the first had answered: getMany was
\* rejected with the 404.
C28_WitnessFailure ==
  /\ dpOp = "getMany"
  /\ dpOrder = <<1, 2>>
  /\ dpSettled[1].state = "fulfilled"
  /\ C28_Failed = {2}
  /\ dpResult = Rejected(HttpErr("Not found", 404, Undef))

\* updateMany returned the identifiers of two responses in the order of the ids.
C28_WitnessUpdateMany ==
  /\ dpOp = "updateMany"
  /\ dpOrder = <<2, 1>>
  /\ dpResult.state = "fulfilled"
  /\ dpResult.result.data = <<Str("icons-alpha"), Str("7")>>

(***************************************************************************)
(* Claims about compareValues as an order.                                 *)
(***************************************************************************)
\* The values of the sort field in the listed records.
C29_SortValues == {Prop(record, lsParams.sort.f.field.s) : record \in Elements(ListedRecords)}

\* The sign Array.prototype.sort sees for compareValues(a, b).
C29_Sign(a, b) == Sign(SortOrder(compareValues(a, b)))

C29_Antisymmetric == \A a, b \in C29_SortValues : C29_Sign(a, b) = 0 - C29_Sign(b, a)

C29_Transitive ==
  \A a, b, c \in C29_SortValues :
    (C29_Sign(a, b) <= 0 /\ C29_Sign(b, c) <= 0) => C29_Sign(a, c) <= 0

\* Every adjacent pair of the sorted list is in the order of the sort.
C29_AdjacentInOrder ==
  \A i \in 1..(Len(lsSorted) - 1) :
    SortOrder(SortComparator(lsParams.sort, lsSorted[i], lsSorted[i + 1])) <= 0

\* C29: on the values a sort field holds in a list (numbers, strings, both)
\* compareValues is antisymmetric and transitive, and the sorted list has every
\* adjacent pair in order.
C29_ConsistentOrder ==
  (ListDone /\ Truthy(lsParams.sort)) =>
    /\ C29_Antisymmetric
    /\ C29_Transitive
    /\ C29_AdjacentInOrder

\* compareValues is antisymmetric on every list of the model.
C29_AntisymmetricAlways == (ListDone /\ Truthy(lsParams.sort)) => C29_Antisymmetric

\* The sort values are all numbers, or none of them is.
C29_Unmixed ==
  \/ \A v \in C29_SortValues : typeof(v) = "number"
  \/ \A v \in C29_SortValues : typeof(v) # "number"

\* On such lists compareValues is an order and the sorted list is in order.
C29_ConsistentOnUnmixed ==
  (ListDone /\ Truthy(lsParams.sort) /\ C29_Unmixed) =>
    /\ C29_Antisymmetric
    /\ C29_Transitive
    /\ C29_AdjacentInOrder

\* The list with draftVersion 2, 10 and '1b' was sorted by draftVersion.
C29_ReachedCycle ==
  /\ ListDone
  /\ Truthy(lsParams.sort)
  /\ lsParams.sort.f.field = Str("draftVersion")
  /\ C29_SortValues = {Num(2), Num(10), Str("1b")}
  /\ ~C29_Transitive

(***************************************************************************)
(* resources/ResourceOperations.tsx: the operations panels.  Each panel    *)
(* keeps `busy` and `result`; each button runs an async handler that does  *)
(* its pre-checks, sets busy, builds and awaits one adapter request, and   *)
(* continues when the request settles.  An effect of a handler (a state    *)
(* setter, notify, refresh, the request) is recorded as an event.          *)
(***************************************************************************)
SetBusy(busy) == [e |-> "setBusy", busy |-> busy]
SetResult(value) == [e |-> "setResult", value |-> value]
Notify(message, type) == [e |-> "notify", message |-> message, type |-> type]
Refresh == [e |-> "refresh"]
AdapterRequest(method, args) == [e |-> "request", method |-> method, args |-> args]

parseVersionOrThrow(value) ==
  LET trimmed == trim(value)
      parsed == NumberOfString(trimmed)
  IN IF Len(trimmed) = 0 THEN Fulfilled(Undef)
     ELSE IF ~NumberIsInteger(parsed) \/ LessThanOne(parsed)
     THEN Rejected(Err("Version must be an integer greater than or equal to 1.", EmptyObj))
     ELSE Fulfilled(parsed)

\* JSON.parse on the texts typed into the JSON fields.
JSONParse(text) ==
  CASE text = "{}" -> Fulfilled(Obj(EmptyObj))
    [] text = "{\"a\":1}" -> Fulfilled(Obj([a |-> Num(1)]))
    [] text = "[]" -> Fulfilled(Arr(<<>>))
    [] text = "[{\"iconSetId\":\"icons-1\"}]" ->
         Fulfilled(Arr(<<Obj([iconSetId |-> Str("icons-1")])>>))
    [] text = "null" -> Fulfilled(Null)
    [] OTHER -> Rejected(Err("Unexpected token", EmptyObj))

parseObjectJsonOrThrow(value, label) ==
  IF \/ JSONParse(value).state = "rejected"
     \/ JSONParse(value).result.t # "object"
  THEN Rejected(Err(label \o " must be a valid JSON object.", EmptyObj))
  ELSE JSONParse(value)

parseJsonOrThrow(value, label) ==
  IF JSONParse(value).state = "rejected"
  THEN Rejected(Err(label \o " must be valid JSON.", EmptyObj))
  ELSE JSONParse(value)

toErrorMessage(error) ==
  IF error.t \in {"Error", "HttpError"} THEN error.message
  ELSE "Request failed."

\* The resourceId of useOperationContext: the record's id field when it is a string.
useOperationContext(resourceIdCandidate) ==
  IF typeof(resourceIdCandidate) = "string" THEN resourceIdCandidate ELSE Undef

MaxClicks == 2

Panels ==
  {"bundle", "iconEntries", "layoutEntries", "linkEntries", "themeVariables", "runtime",
   "resolve"}

\* The entries, variables and runtime panels return an alert before they
\* define their handlers when there is no resourceId; the bundle panel defines
\* its handlers first, and they check resourceId themselves.
HandlersDefined(panel, resourceIdCandidate) ==
  panel \in {"bundle", "resolve"} \/ Truthy(useOperationContext(resourceIdCandidate))

\* The initial values of the form fields a handler reads.
DefaultForm ==
  [version |-> "", key |-> "", value |-> "", dark |-> "", json |-> "", confirm |-> FALSE]

VersionTexts == {"", " 2 ", "0", "abc"}
KeyTexts == {"", "  ", " home "}
ValueTexts == {"", "mdi:home"}
JsonTexts == {"{}", "{\"a\":1}", "[]", "[{\"iconSetId\":\"icons-1\"}]", "null", "oops"}

\* The form values a handler can find when its button is clicked.
Forms(panel, handler) ==
  CASE handler \in {"runGetBundle", "loadEntries", "loadVariables", "loadRuntime"} ->
         {[DefaultForm EXCEPT !.version = v] : v \in VersionTexts}
    [] handler = "runPublish" -> {DefaultForm}
    [] handler = "upsertEntry" /\ panel = "iconEntries" ->
         {[DefaultForm EXCEPT !.key = k, !.value = v] : k \in KeyTexts, v \in ValueTexts}
    [] handler = "upsertEntry" /\ panel = "layoutEntries" ->
         {[DefaultForm EXCEPT !.key = k, !.json = j] : k \in KeyTexts, j \in JsonTexts}
    [] handler = "upsertEntry" /\ panel = "linkEntries" ->
         {[DefaultForm EXCEPT !.key = k, !.value = v, !.json = j] :
            k \in KeyTexts, v \in ValueTexts, j \in {"{}", "{\"a\":1}", "[]"}}
    [] handler = "upsertVariable" ->
         {[DefaultForm EXCEPT !.key = k, !.value = v, !.dark = d] :
            k \in KeyTexts, v \in ValueTexts, d \in {"", "#000"}}
    [] handler \in {"deleteEntry", "deleteVariable"} ->
         {[DefaultForm EXCEPT !.key = k, !.confirm = c] : k \in KeyTexts, c \in BOOLEAN}
    [] OTHER -> {[DefaultForm EXCEPT !.json = j] : j \in JsonTexts}

IsBlankText(text) == Len(trim(text)) = 0

\* What the handler does before setBusy(true): <<>> when it goes on, otherwise
\* the events of the early return (ending with a "return" marker).
Return == [e |-> "return"]

PreCheck(panel, handler, resourceId, form) ==
  CASE handler \in {"runGetBundle", "runPublish"} ->
         IF ~Truthy(resourceId) THEN <<Return>> ELSE <<>>
    [] handler = "upsertEntry" /\ panel = "iconEntries" ->
         IF IsBlankText(form.key) \/ IsBlankText(form.value)
         THEN <<Notify("Entry key and icon are required.", "warning"), Return>> ELSE <<>>
    [] handler = "upsertEntry" /\ panel = "layoutEntries" ->
         IF IsBlankText(form.key)
         THEN <<Notify("Entry key is required.", "warning"), Return>> ELSE <<>>
    [] handler = "upsertEntry" /\ panel = "linkEntries" ->
         IF IsBlankText(form.key) \/ IsBlankText(form.value)
         THEN <<Notify("Entry key and label are required.", "warning"), Return>> ELSE <<>>
    [] handler = "upsertVariable" ->
         IF IsBlankText(form.key) \/ IsBlankText(form.value) \/ IsBlankText(form.dark)
         THEN <<Notify("Variable key, light value, and dark value are required.", "warning"),
                Return>>
         ELSE <<>>
    [] handler = "deleteEntry" ->
         IF IsBlankText(form.key)
         THEN <<Notify("Entry key is required.", "warning"), Return>>
         ELSE IF ~form.confirm THEN <<Return>> ELSE <<>>
    [] handler = "deleteVariable" ->
         IF IsBlankText(form.key)
         THEN <<Notify("Variable key is required.", "warning"), Return>>
         ELSE IF ~form.confirm THEN <<Return>> ELSE <<>>
    [] OTHER -> <<>>

\* The adapter method a handler awaits, the message of its success
\* notification and whether it calls refresh() after it.
HandlerTable(panel, handler) ==
  CASE handler = "runGetBundle" ->
         [method |-> "getBundle", message |-> "Bundle loaded", refresh |-> FALSE]
    [] handler = "runPublish" ->
         [method |-> "publish", message |-> "Published successfully", refresh |-> TRUE]
    [] handler = "loadEntries" ->
         [method |-> CASE panel = "iconEntries" -> "getIconEntries"
                       [] panel = "layoutEntries" -> "getLayoutEntries"
                       [] OTHER -> "getLinkEntries",
          message |-> "Entries loaded", refresh |-> FALSE]
    [] handler = "upsertEntry" ->
         [method |-> CASE panel = "iconEntries" -> "upsertIconEntry"
                       [] panel = "layoutEntries" -> "upsertLayoutEntry"
                       [] OTHER -> "upsertLinkEntry",
          message |-> "Entry upserted", refresh |-> TRUE]
    [] handler = "deleteEntry" ->
         [method |-> CASE panel = "iconEntries" -> "deleteIconEntry"
                       [] panel = "layoutEntries" -> "deleteLayoutEntry"
                       [] OTHER -> "deleteLinkEntry",
          message |-> "Entry deleted", refresh |-> TRUE]
    [] handler = "loadVariables" ->
         [method |-> "getThemeVariables", message |-> "Variables loaded", refresh |-> FALSE]
    [] handler = "upsertVariable" ->
         [method |-> "upsertThemeVariable", message |-> "Variable upserted", refresh |-> TRUE]
    [] handler = "deleteVariable" ->
         [method |-> "deleteThemeVariable", message |-> "Variable deleted", refresh |-> TRUE]
    [] handler = "loadRuntime" ->
         [method |-> "getGraphRuntime", message |-> "Runtime loaded", refresh |-> FALSE]
    [] OTHER ->
         [method |-> "resolveIconSets", message |-> "Resolve completed", refresh |-> FALSE]

StageVersionQuery(version) == Obj([stage |-> Str("published"), version |-> version])

\* The arguments of the adapter call, or the error thrown while building them.
RequestArguments(panel, handler, resourceId, form) ==
  CASE handler \in {"runGetBundle", "loadEntries", "loadVariables", "loadRuntime"} ->
         IF parseVersionOrThrow(form.version).state = "rejected"
         THEN parseVersionOrThrow(form.version)
         ELSE Fulfilled(<<resourceId, StageVersionQuery(parseVersionOrThrow(form.version).result)>>)
    [] handler = "runPublish" -> Fulfilled(<<resourceId>>)
    [] handler = "upsertEntry" /\ panel = "iconEntries" ->
         Fulfilled(<<resourceId, Str(trim(form.key)), Obj([icon |-> Str(trim(form.value))])>>)
    [] handler = "upsertEntry" /\ panel = "layoutEntries" ->
         IF parseJsonOrThrow(form.json, "Entry value").state = "rejected"
         THEN parseJsonOrThrow(form.json, "Entry value")
         ELSE Fulfilled(<<resourceId, Str(trim(form.key)),
                          Obj([value |-> parseJsonOrThrow(form.json, "Entry value").result])>>)
    [] handler = "upsertEntry" /\ panel = "linkEntries" ->
         LET properties == parseObjectJsonOrThrow(form.json, "ELK properties")
         IN IF properties.state = "rejected" THEN properties
            ELSE IF DOMAIN properties.result.f # {}
            THEN Fulfilled(<<resourceId, Str(trim(form.key)),
                             Obj([label |-> Str(trim(form.value)),
                                  elkProperties |-> properties.result])>>)
            ELSE Fulfilled(<<resourceId, Str(trim(form.key)),
                             Obj([label |-> Str(trim(form.value))])>>)
    [] handler = "upsertVariable" ->
         Fulfilled(<<resourceId, Str(trim(form.key)),
                     Obj([valueType |-> Str("color"), lightValue |-> Str(trim(form.value)),
                          darkValue |-> Str(trim(form.dark))])>>)
    [] handler \in {"deleteEntry", "deleteVariable"} ->
         Fulfilled(<<resourceId, Str(trim(form.key))>>)
    [] OTHER ->
         LET refs == parseJsonOrThrow(form.json, "Icon set refs")
         IN IF refs.state = "rejected" THEN refs
            ELSE IF refs.result.t # "array" \/ Len(refs.result.a) = 0
            THEN Rejected(Err("Icon set refs must be a non-empty JSON array.", EmptyObj))
            ELSE Fulfilled(<<Obj([iconSetRefs |-> refs.result,
                                  conflictPolicy |-> Str("reject")])>>)

\* catch and finally of a handler, with the finally block left out.
CaughtWithoutFinally(error) == <<Notify(toErrorMessage(error), "error")>>

\* catch and finally of a handler.
Caught(error) == <<Notify(toErrorMessage(error), "error"), SetBusy(FALSE)>>

\* The handler from its start to its first await or to its return.
HandlerStart(panel, handler, resourceId, form) ==
  LET arguments == RequestArguments(panel, handler, resourceId, form)
  IN IF PreCheck(panel, handler, resourceId, form) # <<>>
     THEN PreCheck(panel, handler, resourceId, form)
     ELSE IF arguments.state = "rejected"
     THEN <<SetBusy(TRUE)>> \o Caught(arguments.reason) \o <<Return>>
     ELSE <<SetBusy(TRUE),
            AdapterRequest(HandlerTable(panel, handler).method, arguments.result)>>

\* The handler after its await: the rest of try, catch, finally.
HandlerResume(panel, handler, outcome) ==
  IF outcome.state = "rejected" THEN Caught(outcome.reason) \o <<Return>>
  ELSE <<SetResult(outcome.result), Notify(HandlerTable(panel, handler).message, "success")>>
       \o (IF HandlerTable(panel, handler).refresh THEN <<Refresh>> ELSE <<>>)
       \o <<SetBusy(FALSE), Return>>

\* The state a useState cell holds after the setter calls among the events.
RECURSIVE StateAfter(_, _, _)
StateAfter(current, events, setter) ==
  IF events = <<>> THEN current
  ELSE IF Head(events).e = setter
  THEN StateAfter(IF setter = "setBusy" THEN Head(events).busy ELSE Head(events).value,
                  Tail(events), setter)
  ELSE StateAfter(current, Tail(events), setter)

Returned(events) == events # <<>> /\ events[Len(events)] = Return

PanelResponses ==
  {Fulfilled(Obj([entries |-> Num(1)])), Fulfilled(Obj([entries |-> Num(2)])),
   Rejected(HttpErr("Conflict", 409, Obj([error |-> Str("conflict")])))}

RecordIdCandidates == {Undef, Str(""), Str("icons-1"), Num(7)}

InitPanel ==
  /\ NormIdle
  /\ AdapterIdle
  /\ MapperIdle
  /\ ListIdle
  /\ ProviderIdle
  /\ ClientIdle
  /\ ConcurrentIdle
  /\ pnPanel \in Panels
  /\ pnRecordId \in RecordIdCandidates
  /\ HandlersDefined(pnPanel, pnRecordId)
  /\ pnPanel = "resolve" => pnRecordId = Undef
  /\ pnBusy = FALSE
  /\ pnResult = Null
  /\ pnClicks = <<>>

\* A button is clicked (it is disabled while busy) and its handler runs to
\* its first await or to its return.
Click(handler) ==
  /\ ~pnBusy
  /\ Len(pnClicks) < MaxClicks
  /\ \E form \in Forms(pnPanel, handler) :
       LET events == HandlerStart(pnPanel, handler, useOperationContext(pnRecordId), form)
       IN /\ pnClicks' = Append(pnClicks, [handler |-> handler, form |-> form,
                                           shown |-> pnResult, outcome |-> NoValue,
                                           events |-> events])
          /\ pnBusy' = StateAfter(pnBusy, events, "setBusy")
          /\ pnResult' = StateAfter(pnResult, events, "setResult")
  /\ UNCHANGED <<pnPanel, pnRecordId,
                 normVars, adapterVars, mapperVars, listVars, providerVars,
                 clientVars, concurrentVars>>

RunGetBundle ==
  /\ pnPanel = "bundle"
  /\ Click("runGetBundle")

RunPublish ==
  /\ pnPanel = "bundle"
  /\ Click("runPublish")

LoadEntries ==
  /\ pnPanel \in {"iconEntries", "layoutEntries", "linkEntries"}
  /\ Click("loadEntries")

UpsertEntry ==
  /\ pnPanel \in {"iconEntries", "layoutEntries", "linkEntries"}
  /\ Click("upsertEntry")

DeleteEntry ==
  /\ pnPanel \in {"iconEntries", "layoutEntries", "linkEntries"}
  /\ Click("deleteEntry")

LoadVariables ==
  /\ pnPanel = "themeVariables"
  /\ Click("loadVariables")

UpsertVariable ==
  /\ pnPanel = "themeVariables"
  /\ Click("upsertVariable")

DeleteVariable ==
  /\ pnPanel = "themeVariables"
  /\ Click("deleteVariable")

LoadRuntime ==
  /\ pnPanel = "runtime"
  /\ Click("loadRuntime")

RunResolve ==
  /\ pnPanel = "resolve"
  /\ Click("runResolve")

\* The awaited adapter request settles and the handler runs to its end.
RequestSettles ==
  /\ pnClicks # <<>>
  /\ ~Returned(pnClicks[Len(pnClicks)].events)
  /\ \E outcome \in PanelResponses :
       LET click == pnClicks[Len(pnClicks)]
           events == HandlerResume(pnPanel, click.handler, outcome)
       IN /\ pnClicks' = [pnClicks EXCEPT ![Len(pnClicks)] =
                            [click EXCEPT !.outcome = outcome,
                                          !.events = click.events \o events]]
          /\ pnBusy' = StateAfter(pnBusy, events, "setBusy")
          /\ pnResult' = StateAfter(pnResult, events, "setResult")
  /\ UNCHANGED <<pnPanel, pnRecordId,
                 normVars, adapterVars, mapperVars, listVars, providerVars,
                 clientVars, concurrentVars>>

NextPanel ==
  \/ RunGetBundle \/ RunPublish
  \/ LoadEntries \/ UpsertEntry \/ DeleteEntry
  \/ LoadVariables \/ UpsertVariable \/ DeleteVariable
  \/ LoadRuntime \/ RunResolve
  \/ RequestSettles

SpecPanel == InitPanel /\ [][NextPanel]_vars

(***************************************************************************)
(* C30: the operations panels.                                             *)
(***************************************************************************)
C30_Has(events, kind) == \E k \in 1..Len(events) : events[k].e = kind

C30_MutatingHandlers ==
  {"runPublish", "upsertEntry", "upsertVariable", "deleteEntry", "deleteVariable"}

\* The click is stopped by a pre-check: no record id (bundle panel), a blank
\* required field, or a declined confirmation.
C30_PreCheckRejects(click) ==
  \/ /\ click.handler \in {"runGetBundle", "runPublish"}
     /\ (typeof(pnRecordId) # "string" \/ pnRecordId.s = "")
  \/ /\ click.handler \in {"upsertEntry", "upsertVariable", "deleteEntry", "deleteVariable"}
     /\ click.form.key \in {"", "  "}
  \/ /\ click.handler = "upsertEntry" /\ pnPanel \in {"iconEntries", "linkEntries"}
     /\ click.form.value = ""
  \/ /\ click.handler = "upsertVariable"
     /\ (click.form.value = "" \/ click.form.dark = "")
  \/ /\ click.handler \in {"deleteEntry", "deleteVariable"}
     /\ ~click.form.confirm

\* The handler of the click has run to its end.
C30_Finished(click) == click.events[Len(click.events)].e = "return"

\* The operation failed: parsing threw before the request or the adapter rejected.
C30_FailedOperation(click) ==
  /\ ~C30_PreCheckRejects(click)
  /\ C30_Finished(click)
  /\ (click.outcome = NoValue \/ click.outcome.state = "rejected")

\* The result shown once the i-th click is over.
C30_ShownAfter(i) == IF i = Len(pnClicks) THEN pnResult ELSE pnClicks[i + 1].shown

\* The value of the last setBusy call of the click.
C30_LastBusy(click) ==
  LET k == CHOOSE k \in 1..Len(click.events) :
             /\ click.events[k].e = "setBusy"
             /\ \A j \in (k + 1)..Len(click.events) : click.events[j].e # "setBusy"
  IN click.events[k].busy

C30_BusyOf(i) ==
  LET click == pnClicks[i]
  IN IF C30_PreCheckRejects(click)
     THEN /\ ~C30_Has(click.events, "setBusy")
          /\ ~C30_Has(click.events, "request")
          /\ C30_Finished(click)
     ELSE /\ click.events[1] = SetBusy(TRUE)
          /\ \A k \in 1..Len(click.events) :
               click.events[k].e = "request" => k = 2
          /\ C30_LastBusy(click) = ~C30_Finished(click)
          /\ ~C30_Finished(click) => C30_Has(click.events, "request")
          /\ i = Len(pnClicks) => pnBusy = ~C30_Finished(click)

C30_RefreshOf(i) ==
  LET click == pnClicks[i]
  IN \A k \in 1..Len(click.events) :
       click.events[k].e = "refresh" =>
         /\ click.handler \in C30_MutatingHandlers
         /\ click.outcome # NoValue /\ click.outcome.state = "fulfilled"
         /\ \E j \in 1..(k - 1) : click.events[j].e = "request"

C30_ResultOf(i) ==
  C30_FailedOperation(pnClicks[i]) \/ C30_PreCheckRejects(pnClicks[i])
    => C30_ShownAfter(i) = pnClicks[i].shown

\* C30: in every operations panel a handler that passes its pre-checks sets
\* busy to true first, issues at most one request right after it, and has set
\* busy back to false when it is over, whether the request succeeded, the
\* adapter rejected or parsing threw before the request; a handler stopped by
\* a pre-check sets busy never and issues no request; refresh is called only
\* by a mutating handler after its request succeeded; a failed operation
\* leaves the shown result as it was.
C30_PanelDiscipline ==
  /\ pnClicks = <<>> => ~pnBusy
  /\ \A i \in 1..Len(pnClicks) : C30_BusyOf(i) /\ C30_RefreshOf(i) /\ C30_ResultOf(i)

\* A mutation succeeded and refreshed, then the next operation was rejected
\* by the adapter: busy is false again and the first result is still shown.
C30_Witness ==
  /\ Len(pnClicks) = 2
  /\ pnClicks[1].handler \in C30_MutatingHandlers
  /\ pnClicks[1].outcome # NoValue /\ pnClicks[1].outcome.state = "fulfilled"
  /\ C30_Has(pnClicks[1].events, "refresh")
  /\ pnClicks[2].outcome # NoValue /\ pnClicks[2].outcome.state = "rejected"
  /\ C30_Finished(pnClicks[2])
  /\ pnResult = pnClicks[1].outcome.result /\ pnResult # Null
  /\ ~pnBusy

\* Parsing threw before the request, after a result had been shown.
C30_WitnessParsing ==
  /\ Len(pnClicks) = 2
  /\ pnResult # Null
  /\ C30_FailedOperation(pnClicks[2])
  /\ pnClicks[2].outcome = NoValue
  /\ ~C30_Has(pnClicks[2].events, "request")
  /\ C30_Has(pnClicks[2].events, "setBusy")

\* Each kind of pre-check has stopped a click.
C30_WitnessNoRecordId ==
  /\ pnClicks # <<>> /\ pnClicks[1].handler = "runPublish"
  /\ C30_PreCheckRejects(pnClicks[1])

C30_WitnessBlankKey ==
  /\ pnClicks # <<>> /\ pnClicks[1].handler = "upsertEntry"
  /\ pnClicks[1].form.key = "  "
  /\ pnPanel = "layoutEntries"

C30_WitnessDeclined ==
  /\ pnClicks # <<>> /\ pnClicks[1].handler = "deleteVariable"
  /\ pnClicks[1].form.key = " home " /\ ~pnClicks[1].form.confirm

\* A request is in flight and busy is true.
C30_WitnessInFlight ==
  /\ pnClicks # <<>> /\ ~C30_Finished(pnClicks[Len(pnClicks)])
  /\ pnBusy

====
